---- MODULE Spec2Model ----
(***************************************************************************)
(* A model of md2word's DOCX package builder (internal/docx) and of the    *)
(* Markdown tree walk that drives it (internal/converter).                 *)
(*                                                                         *)
(* Representation.  A Go string whose bytes the code inspects (run text,   *)
(* colours, shading) is a sequence of one-character strings; "" is <<>>.   *)
(* Markup is a sequence of tokens: one token per tag, and one token per    *)
(* text line (the characters of the line joined).  The indentation that    *)
(* the code writes between tags is left out.  A font size is kept in       *)
(* tenths of a point (105 is 10.5pt).                                      *)
(***************************************************************************)
EXTENDS Integers, Sequences, FiniteSets, TLC

(* ------------------------------ bounds -------------------------------- *)
MaxElements == 2
MaxRelCalls == 2
MaxTextLen == 4
MaxEarlyLinks == 1
MaxLongCalls == 991
MaxNodes == 2
MaxFormulaLen == 5

(* --------------------------- string helpers --------------------------- *)
RECURSIVE Str(_)
Str(s) == IF s = <<>> THEN "" ELSE Head(s) \o Str(Tail(s))

IfSeq(c, s) == IF c THEN s ELSE <<>>

RECURSIVE Flatten(_)
Flatten(ss) == IF ss = <<>> THEN <<>> ELSE Head(ss) \o Flatten(Tail(ss))

HasPrefix(s, p) == Len(s) >= Len(p) /\ SubSeq(s, 1, Len(p)) = p

HasSuffix(s, p) == Len(s) >= Len(p) /\ SubSeq(s, Len(s) - Len(p) + 1, Len(s)) = p

Contains(s, p) == \E i \in 1..(Len(s) - Len(p) + 1) : SubSeq(s, i, i + Len(p) - 1) = p

TrimPrefix(s, p) == IF HasPrefix(s, p) THEN SubSeq(s, Len(p) + 1, Len(s)) ELSE s

(* strings.Split(s, sep) for a one-character separator: the pieces between *)
(* the occurrences of sep, so n occurrences give n+1 pieces.               *)
RECURSIVE SplitFrom(_, _, _)
SplitFrom(s, sep, cur) ==
    IF s = <<>> THEN <<cur>>
    ELSE IF Head(s) = sep THEN <<cur>> \o SplitFrom(Tail(s), sep, <<>>)
    ELSE SplitFrom(Tail(s), sep, Append(cur, Head(s)))

Split(s, sep) == SplitFrom(s, sep, <<>>)

(* fmt.Sprintf("%d", n) *)
Itoa(n) == ToString(n)

(* ----------------------------- XMLEscape ------------------------------ *)
(* encoding/xml.EscapeText: the five markup characters and the three       *)
(* control characters tab, newline and carriage return become character    *)
(* references; every other character of the model's alphabet is copied.    *)
EscapeChar(c) ==
    CASE c = "\"" -> <<"&", "#", "3", "4", ";">>
      [] c = "'"  -> <<"&", "#", "3", "9", ";">>
      [] c = "&"  -> <<"&", "a", "m", "p", ";">>
      [] c = "<"  -> <<"&", "l", "t", ";">>
      [] c = ">"  -> <<"&", "g", "t", ";">>
      [] c = "\t" -> <<"&", "#", "x", "9", ";">>
      [] c = "\n" -> <<"&", "#", "x", "A", ";">>
      [] c = "\r" -> <<"&", "#", "x", "D", ";">>
      [] OTHER    -> <<c>>

XMLEscape(s) == Flatten([i \in 1..Len(s) |-> EscapeChar(s[i])])

(* ------------------------- Block model: Run --------------------------- *)
(* Run{...} with every field at its zero value (paragraph.go:39-54).       *)
ZeroRun ==
    [kind |-> "run", Text |-> <<>>, Bold |-> FALSE, Italic |-> FALSE,
     Underline |-> FALSE, Strike |-> FALSE, FontName |-> "", FontSize |-> 0,
     Color |-> <<>>, Highlight |-> "", IsCode |-> FALSE, IsImage |-> FALSE,
     ImageRelID |-> "", ImageWidth |-> 0, ImageHeight |-> 0]

(* &Run{Text: text} *)
TextRun(text) == [ZeroRun EXCEPT !.Text = text]

(* &Run{Text: text, Bold: bold, Italic: italic, IsCode: code} *)
FormattedRun(text, bold, italic, code) ==
    [ZeroRun EXCEPT !.Text = text, !.Bold = bold, !.Italic = italic, !.IsCode = code]

(* &Run{IsImage: true, ImageRelID: relID, ImageWidth: w, ImageHeight: h} *)
ImageRun(relID, width, height) ==
    [ZeroRun EXCEPT !.IsImage = TRUE, !.ImageRelID = relID,
                    !.ImageWidth = width, !.ImageHeight = height]

(* A conversion that rounds to the nearest half-point. *)
HalfPointsRounded(size) == (size * 2 + 5) \div 10

(* int(pt * 2) on a size kept in tenths of a point: Go's conversion        *)
(* truncates toward zero; the callers only pass sizes >= 0.                *)
HalfPoints(size) ==
    IF size >= 0 THEN (size * 2) \div 10 ELSE -(((-size) * 2) \div 10)

FontSizeToTwips(pt) == HalfPoints(pt)

(* The run-properties block of Run.ToXML. *)
RunPropsXML(r) ==
    IF r.Bold \/ r.Italic \/ r.Underline \/ r.Strike \/ r.FontName # ""
       \/ r.FontSize > 0 \/ r.Color # <<>> \/ r.IsCode
    THEN <<"<w:rPr>">>
         \o IfSeq(r.FontName # "",
                  <<"<w:rFonts w:ascii=\"" \o r.FontName \o "\" w:eastAsia=\""
                    \o r.FontName \o "\" w:hAnsi=\"" \o r.FontName \o "\"/>">>)
         \o IfSeq(r.FontSize > 0,
                  <<"<w:sz w:val=\"" \o Itoa(HalfPoints(r.FontSize)) \o "\"/>",
                    "<w:szCs w:val=\"" \o Itoa(HalfPoints(r.FontSize)) \o "\"/>">>)
         \o IfSeq(r.Bold, <<"<w:b/>">>)
         \o IfSeq(r.Italic, <<"<w:i/>">>)
         \o IfSeq(r.Underline, <<"<w:u w:val=\"single\"/>">>)
         \o IfSeq(r.Strike, <<"<w:strike/>">>)
         \o IfSeq(r.Color # <<>>,
                  <<"<w:color w:val=\"" \o Str(TrimPrefix(r.Color, <<"#">>)) \o "\"/>">>)
         \o IfSeq(r.IsCode,
                  <<"<w:rFonts w:ascii=\"Consolas\" w:hAnsi=\"Consolas\"/>",
                    "<w:shd w:val=\"clear\" w:color=\"auto\" w:fill=\"E8E8E8\"/>">>)
         \o <<"</w:rPr>">>
    ELSE <<>>

TextOpen == "<w:t>"
TextOpenPreserve == "<w:t xml:space=\"preserve\">"
TextClose == "</w:t>"
LineBreak == "<w:br/>"

(* A line rendering that looks at the ends of the line only. *)
LineXMLEdgesOnly(line) ==
    IF HasPrefix(line, <<" ">>) \/ HasSuffix(line, <<" ">>)
    THEN <<TextOpenPreserve, Str(line), TextClose>>
    ELSE <<TextOpen, Str(line), TextClose>>

(* One line of a text run: the text element, with the preserve marker when *)
(* the line starts or ends with a space or holds two spaces in a row.      *)
LineXML(line) ==
    IF HasPrefix(line, <<" ">>) \/ HasSuffix(line, <<" ">>) \/ Contains(line, <<" ", " ">>)
    THEN <<TextOpenPreserve, Str(line), TextClose>>
    ELSE <<TextOpen, Str(line), TextClose>>

(* The lines that Run.ToXML renders: the escaped text split at newlines.   *)
RunLines(text) == Split(XMLEscape(text), "\n")

(* The text content of Run.ToXML: a line break before every line but the   *)
(* first.                                                                  *)
RunTextXML(text) ==
    LET lines == RunLines(text)
    IN  Flatten([i \in 1..Len(lines) |->
                    IfSeq(i > 1, <<LineBreak>>) \o LineXML(lines[i])])

(* The embedded drawing of an image run, reduced to the elements that      *)
(* carry a value: the extent and the relationship the blip embeds.         *)
DrawingXML(r) ==
    <<"<w:drawing>",
      "<wp:extent cx=\"" \o Itoa(r.ImageWidth) \o "\" cy=\"" \o Itoa(r.ImageHeight) \o "\"/>",
      "<a:blip r:embed=\"" \o r.ImageRelID \o "\"/>",
      "<a:ext cx=\"" \o Itoa(r.ImageWidth) \o "\" cy=\"" \o Itoa(r.ImageHeight) \o "\"/>",
      "</w:drawing>">>

(* Run.ToXML *)
RunToXML(r) ==
    <<"<w:r>">>
    \o RunPropsXML(r)
    \o (IF r.IsImage THEN DrawingXML(r)
        ELSE IF r.Text # <<>> THEN RunTextXML(r.Text)
        ELSE <<>>)
    \o <<"</w:r>">>

(* Hyperlink.ToXML *)
HyperlinkToXML(h) ==
    <<"<w:hyperlink r:id=\"" \o h.ID \o "\">">>
    \o Flatten([i \in 1..Len(h.Runs) |-> RunToXML(h.Runs[i])])
    \o <<"</w:hyperlink>">>

(* A child of a paragraph is a Run or a Hyperlink. *)
ChildToXML(c) == IF c.kind = "link" THEN HyperlinkToXML(c) ELSE RunToXML(c)

(* ---------------------- Block model: Paragraph ----------------------- *)
(* NewParagraph(styleID) *)
NewParagraph(styleID) ==
    [kind |-> "p", StyleID |-> styleID, Children |-> <<>>, Align |-> "",
     Indent |-> 0, SpacingB |-> 0, SpacingA |-> 0, Shading |-> <<>>,
     Border |-> FALSE, HorizontalRule |-> FALSE, LineHeight |-> 0,
     FirstLineIndent |-> 0]

(* Paragraph.AddRun and its siblings append one child. *)
AddChild(p, c) == [p EXCEPT !.Children = Append(@, c)]

(* Hyperlink{ID: id, Runs: []}.  styled is not a field of the code: it     *)
(* records, for every pass that styles the runs of the link, how many runs *)
(* the link had when the pass ran.                                         *)
NewHyperlink(id) == [kind |-> "link", ID |-> id, Runs |-> <<>>, styled |-> <<>>]

(* left -> start, right -> end, anything else unchanged *)
JcOf(align) ==
    IF align = "left" THEN "start" ELSE IF align = "right" THEN "end" ELSE align

(* The guard of the paragraph-properties block. *)
HasParaProps(p) ==
    \/ p.StyleID # "" \/ p.Align # "" \/ p.Indent > 0 \/ p.SpacingB > 0
    \/ p.SpacingA > 0 \/ p.Shading # <<>> \/ p.Border \/ p.HorizontalRule
    \/ p.LineHeight > 0 \/ p.FirstLineIndent > 0

(* The children of the paragraph-properties block, in the order written. *)
ParaPropsChildren(p) ==
    IfSeq(p.StyleID # "", <<"<w:pStyle w:val=\"" \o p.StyleID \o "\"/>">>)
    \o IfSeq(p.Align # "", <<"<w:jc w:val=\"" \o JcOf(p.Align) \o "\"/>">>)
    \o IfSeq(p.Indent > 0 \/ p.FirstLineIndent > 0,
             <<"<w:ind w:left=\"" \o Itoa(p.Indent) \o "\" w:firstLine=\""
               \o Itoa(p.FirstLineIndent) \o "\"/>">>)
    \o IfSeq(p.SpacingB > 0 \/ p.SpacingA > 0 \/ p.LineHeight > 0,
             <<"<w:spacing w:before=\"" \o Itoa(p.SpacingA) \o "\" w:after=\""
               \o Itoa(p.SpacingB) \o "\" w:line=\""
               \o Itoa(IF p.LineHeight > 0 THEN p.LineHeight ELSE 360)
               \o "\" w:lineRule=\"auto\"/>">>)
    \o IfSeq(p.Shading # <<>>,
             <<"<w:shd w:val=\"clear\" w:color=\"auto\" w:fill=\""
               \o Str(TrimPrefix(p.Shading, <<"#">>)) \o "\"/>">>)
    \o IfSeq(p.HorizontalRule, <<"<w:pBdr bottom>">>)
    \o IfSeq(p.Border, <<"<w:pBdr box>">>)

(* A paragraph rendering that writes the properties block always. *)
ParagraphToXMLWithProps(p) ==
    <<"<w:p>", "<w:pPr>">> \o ParaPropsChildren(p) \o <<"</w:pPr>">>
    \o Flatten([i \in 1..Len(p.Children) |-> ChildToXML(p.Children[i])])
    \o <<"</w:p>">>

(* Paragraph.ToXML *)
ParagraphToXML(p) ==
    <<"<w:p>">>
    \o IfSeq(HasParaProps(p), <<"<w:pPr>">> \o ParaPropsChildren(p) \o <<"</w:pPr>">>)
    \o Flatten([i \in 1..Len(p.Children) |-> ChildToXML(p.Children[i])])
    \o <<"</w:p>">>

(* --------------------------- Table model ------------------------------ *)
(* NewTable() *)
NewTable == [kind |-> "tbl", Rows |-> <<>>, ColWidths |-> <<>>, HasBorders |-> TRUE]

(* TableRow{Cells: [], IsHeader: isHeader} *)
NewRow(isHeader) == [Cells |-> <<>>, IsHeader |-> isHeader]

(* TableCell{Paragraphs: []} *)
NewCell == [Paragraphs |-> <<>>, Width |-> 0, Align |-> "", VAlign |-> "", Shading |-> ""]

(* TableCell.AddParagraph *)
CellAddParagraph(c, p) == [c EXCEPT !.Paragraphs = Append(@, p)]

(* Table.ToXML assigns the cell's alignment to each of the cell's          *)
(* paragraphs that has none, before it renders the paragraph.              *)
CellAfterToXML(c) ==
    [c EXCEPT !.Paragraphs =
        [i \in 1..Len(c.Paragraphs) |->
            IF c.Align # "" /\ c.Paragraphs[i].Align = ""
            THEN [c.Paragraphs[i] EXCEPT !.Align = c.Align]
            ELSE c.Paragraphs[i]]]

RowAfterToXML(r) ==
    [r EXCEPT !.Cells = [i \in 1..Len(r.Cells) |-> CellAfterToXML(r.Cells[i])]]

(* The table as Table.ToXML leaves it. *)
TableAfterToXML(t) ==
    [t EXCEPT !.Rows = [i \in 1..Len(t.Rows) |-> RowAfterToXML(t.Rows[i])]]

(* A cell rendering that writes no paragraph for a cell without any. *)
CellToXMLBare(c) ==
    <<"<w:tc>", "<w:tcPr>", "</w:tcPr>">>
    \o Flatten([i \in 1..Len(c.Paragraphs) |-> ParagraphToXML(c.Paragraphs[i])])
    \o <<"</w:tc>">>

CellToXML(c) ==
    <<"<w:tc>", "<w:tcPr>">>
    \o IfSeq(c.Width > 0, <<"<w:tcW w:w=\"" \o Itoa(c.Width) \o "\" w:type=\"dxa\"/>">>)
    \o IfSeq(c.Shading # "",
             <<"<w:shd w:val=\"clear\" w:color=\"auto\" w:fill=\"" \o c.Shading \o "\"/>">>)
    \o IfSeq(c.VAlign # "", <<"<w:vAlign w:val=\"" \o c.VAlign \o "\"/>">>)
    \o <<"</w:tcPr>">>
    \o (IF Len(c.Paragraphs) = 0 THEN <<"<w:p/>">>
        ELSE LET after == CellAfterToXML(c)
             IN  Flatten([i \in 1..Len(after.Paragraphs) |->
                             ParagraphToXML(after.Paragraphs[i])]))
    \o <<"</w:tc>">>

RowToXML(r) ==
    <<"<w:tr>">>
    \o IfSeq(r.IsHeader, <<"<w:trPr>", "<w:tblHeader/>", "</w:trPr>">>)
    \o Flatten([i \in 1..Len(r.Cells) |-> CellToXML(r.Cells[i])])
    \o <<"</w:tr>">>

(* Table.ToXML *)
TableToXML(t) ==
    <<"<w:tbl>", "<w:tblPr>", "<w:tblStyle w:val=\"TableGrid\"/>",
      "<w:tblW w:w=\"0\" w:type=\"auto\"/>", "<w:tblLook w:val=\"04A0\"/>">>
    \o IfSeq(t.HasBorders, <<"<w:tblBorders>">>)
    \o <<"</w:tblPr>">>
    \o IfSeq(Len(t.ColWidths) > 0,
             <<"<w:tblGrid>">>
             \o [i \in 1..Len(t.ColWidths) |->
                    "<w:gridCol w:w=\"" \o Itoa(t.ColWidths[i]) \o "\"/>"]
             \o <<"</w:tblGrid>">>)
    \o Flatten([i \in 1..Len(t.Rows) |-> RowToXML(t.Rows[i])])
    \o <<"</w:tbl>">>

(* Element.ToXML: a Paragraph or a TableElement wrapping a Table. *)
ElementToXML(e) == IF e.kind = "tbl" THEN TableToXML(e) ELSE ParagraphToXML(e)

(* The element as its ToXML leaves it: only a table's rendering writes.    *)
ElementAfterToXML(e) == IF e.kind = "tbl" THEN TableAfterToXML(e) ELSE e

(* ------------------------- Style sheet part --------------------------- *)
(* StyleConfig with every field at its zero value (config.go:15-27).       *)
ZeroStyle ==
    [Font |-> "", Size |-> 0, Bold |-> FALSE, Color |-> <<>>, LineSpacing |-> 0,
     LineHeight |-> 0, SpaceBefore |-> 0, SpaceAfter |-> 0, FirstLineIndent |-> 0]

(* Config.GetHeadingStyle: the level's own style for 1..9, the body style  *)
(* for every other level.                                                  *)
GetHeadingStyle(cfg, level) ==
    IF level \in 1..9 THEN cfg.Heading[level] ELSE cfg.Body

RunFontsXML(font) ==
    "<w:rFonts w:ascii=\"" \o font \o "\" w:eastAsia=\"" \o font
    \o "\" w:hAnsi=\"" \o font \o "\"/>"

SizeXML(size) ==
    <<"<w:sz w:val=\"" \o Itoa(HalfPoints(size)) \o "\"/>",
      "<w:szCs w:val=\"" \o Itoa(HalfPoints(size)) \o "\"/>">>

(* The style definition GenerateStyles writes for one heading level. *)
HeadingStyleXML(cfg, level) ==
    LET style == GetHeadingStyle(cfg, level)
    IN  <<"<w:style w:type=\"paragraph\" w:styleId=\"Heading" \o Itoa(level) \o "\">",
          "<w:name w:val=\"heading " \o Itoa(level) \o "\"/>",
          "<w:basedOn w:val=\"Normal\"/>", "<w:next w:val=\"Normal\"/>",
          "<w:pPr>", "<w:keepNext/>", "<w:keepLines/>",
          "<w:spacing w:before=\"240\" w:after=\"120\"/>",
          "<w:outlineLvl w:val=\"" \o Itoa(level - 1) \o "\"/>", "</w:pPr>",
          "<w:rPr>", RunFontsXML(style.Font)>>
        \o SizeXML(style.Size)
        \o IfSeq(style.Bold, <<"<w:b/>", "<w:bCs/>">>)
        \o <<"</w:rPr>", "</w:style>">>

(* GenerateStyles *)
GenerateStyles(cfg) ==
    <<"<w:styles>", "<w:docDefaults>", "<w:rPrDefault>", "<w:rPr>",
      RunFontsXML(cfg.Body.Font)>>
    \o SizeXML(cfg.Body.Size)
    \o <<"</w:rPr>", "</w:rPrDefault>", "<w:pPrDefault>", "<w:pPr>",
         "<w:spacing w:after=\"0\" w:line=\"276\" w:lineRule=\"auto\"/>",
         "</w:pPr>", "</w:pPrDefault>", "</w:docDefaults>",
         "<w:style w:type=\"paragraph\" w:default=\"1\" w:styleId=\"Normal\">",
         "<w:name w:val=\"Normal\"/>", "<w:rPr>", RunFontsXML(cfg.Body.Font)>>
    \o SizeXML(cfg.Body.Size)
    \o <<"</w:rPr>", "</w:style>">>
    \o Flatten([level \in 1..9 |-> HeadingStyleXML(cfg, level)])
    \o <<"<w:style w:type=\"paragraph\" w:styleId=\"Code\">", "<w:name w:val=\"Code\"/>",
         "<w:basedOn w:val=\"Normal\"/>", "<w:pPr>",
         "<w:shd w:val=\"clear\" w:color=\"auto\" w:fill=\"F5F5F5\"/>",
         "<w:spacing w:before=\"120\" w:after=\"120\"/>", "</w:pPr>", "<w:rPr>",
         "<w:rFonts w:ascii=\"Consolas\" w:hAnsi=\"Consolas\" w:cs=\"Consolas\"/>">>
    \o SizeXML(cfg.Code.Size)
    \o <<"</w:rPr>", "</w:style>",
         "<w:style w:type=\"table\" w:styleId=\"TableGrid\">",
         "<w:name w:val=\"Table Grid\"/>", "<w:basedOn w:val=\"TableNormal\"/>",
         "<w:tblPr>", "<w:tblBorders>", "</w:tblPr>", "</w:style>", "</w:styles>">>

(* Two configurations: one that sets every style, and the zero Config but  *)
(* for the body style and the image width limit.                           *)
FullConfig ==
    [Body |-> [ZeroStyle EXCEPT !.Font = "SimSun", !.Size = 105, !.LineHeight = 360,
                                !.FirstLineIndent = 420],
     Heading |-> [level \in 1..9 |->
                     [ZeroStyle EXCEPT !.Font = "SimHei", !.Size = 240 - 10 * level,
                                       !.Bold = (level <= 3)]],
     Code |-> [ZeroStyle EXCEPT !.Font = "Consolas", !.Size = 90,
                                !.Color = <<"#", "C", "7">>],
     CodeBlock |-> [ZeroStyle EXCEPT !.Font = "Consolas", !.Size = 95],
     MermaidEnabled |-> TRUE, MaxWidth |-> 600]

BareConfig ==
    [Body |-> [ZeroStyle EXCEPT !.Font = "SimSun", !.Size = 105],
     Heading |-> [level \in 1..9 |-> ZeroStyle],
     Code |-> ZeroStyle, CodeBlock |-> ZeroStyle,
     MermaidEnabled |-> FALSE, MaxWidth |-> 600]

Configs == {FullConfig, BareConfig}

(* ---------------- Relationship registry and package builder ---------- *)
ImageRelType == "http://schemas.openxmlformats.org/officeDocument/2006/relationships/image"
HyperlinkRelType == "http://schemas.openxmlformats.org/officeDocument/2006/relationships/hyperlink"

(* The offsets AddImage and AddHyperlink add to the counter. *)
ImageIDOffset == 10
HyperlinkIDOffset == 1000

(* fmt.Sprintf("rId%d", n) *)
RID(n) == "rId" \o Itoa(n)

EmptyMap == [x \in {} |-> x]

MapPut(m, k, v) == [x \in DOMAIN m \cup {k} |-> IF x = k THEN v ELSE m[x]]

(* NewDocument: contentRels is left nil, the zero counter is imageCount.   *)
NewDocument(cfg) ==
    [config |-> cfg, elements |-> <<>>, images |-> EmptyMap, imageCount |-> 0,
     rels |-> <<>>, contentRels |-> <<>>]

(* Document.AddParagraph *)
DocAddParagraph(d, e) == [d EXCEPT !.elements = Append(@, e)]

(* An extension that does not depend on the content type. *)
ExtOfAlwaysPng(contentType) == ".png"

(* The extension AddImage derives from the content type. *)
ExtOf(contentType) ==
    CASE contentType = "image/jpeg"    -> ".jpg"
      [] contentType = "image/gif"     -> ".gif"
      [] contentType = "image/svg+xml" -> ".svg"
      [] OTHER                         -> ".png"

(* The relationship ID AddImage makes from the counter it has incremented. *)
ImageRID(count) == RID(count + ImageIDOffset)

(* The relationship ID AddHyperlink makes from the counter it has          *)
(* incremented.                                                            *)
HyperlinkRID(count) == RID(count + HyperlinkIDOffset)

(* Document.AddImage: the document after the call and the ID returned.     *)
DocAddImage(d, data, contentType, width, height) ==
    LET count == d.imageCount + 1
        rID == ImageRID(count)
        name == "image" \o Itoa(count) \o ExtOf(contentType)
    IN  [doc |-> [d EXCEPT
                    !.imageCount = count,
                    !.images = MapPut(@, name,
                                      [Data |-> data, ContentType |-> contentType,
                                       Width |-> width, Height |-> height]),
                    !.contentRels = Append(@, [ID |-> rID, Type |-> ImageRelType,
                                               Target |-> "media/" \o name,
                                               TargetMode |-> ""])],
         rID |-> rID]

(* Document.AddHyperlink: it increments the counter AddImage uses.         *)
DocAddHyperlink(d, target) ==
    LET count == d.imageCount + 1
        rID == HyperlinkRID(count)
    IN  [doc |-> [d EXCEPT
                    !.imageCount = count,
                    !.contentRels = Append(@, [ID |-> rID, Type |-> HyperlinkRelType,
                                               Target |-> target,
                                               TargetMode |-> "External"])],
         rID |-> rID]

(* writeContentTypes: the manifest's declarations. *)
ContentTypesXML ==
    <<"<Types>",
      "<Default Extension=\"rels\"/>", "<Default Extension=\"xml\"/>",
      "<Default Extension=\"png\"/>", "<Default Extension=\"jpg\"/>",
      "<Default Extension=\"jpeg\"/>", "<Default Extension=\"gif\"/>",
      "<Override PartName=\"/word/document.xml\"/>",
      "<Override PartName=\"/word/styles.xml\"/>",
      "</Types>">>

(* writeRels *)
RootRelsXML ==
    <<"<Relationships>",
      "<Relationship Id=\"rId1\" Target=\"word/document.xml\"/>",
      "</Relationships>">>

(* The ID of the styles relationship that writeDocumentRels always writes. *)
StylesRelID == "rId1"

(* A relationship written without its target mode. *)
RelXMLWithoutMode(rel) ==
    "<Relationship Id=\"" \o rel.ID \o "\" Type=\"" \o rel.Type \o "\" Target=\""
    \o rel.Target \o "\"/>"

(* One relationship of the registry as writeDocumentRels writes it. *)
RelXML(rel) ==
    IF rel.TargetMode # ""
    THEN "<Relationship Id=\"" \o rel.ID \o "\" Type=\"" \o rel.Type \o "\" Target=\""
         \o rel.Target \o "\" TargetMode=\"" \o rel.TargetMode \o "\"/>"
    ELSE "<Relationship Id=\"" \o rel.ID \o "\" Type=\"" \o rel.Type \o "\" Target=\""
         \o rel.Target \o "\"/>"

(* writeDocumentRels *)
DocumentRelsXML(d) ==
    <<"<Relationships>",
      "<Relationship Id=\"" \o StylesRelID \o "\" Target=\"styles.xml\"/>">>
    \o [i \in 1..Len(d.contentRels) |-> RelXML(d.contentRels[i])]
    \o <<"</Relationships>">>

BodyOpen == <<"<w:document>", "<w:body>">>

(* The page-size and margin trailer that closes the body. *)
BodyTrailer ==
    <<"<w:sectPr>", "<w:pgSz w:w=\"11906\" w:h=\"16838\"/>",
      "<w:pgMar w:top=\"1440\" w:right=\"1800\" w:bottom=\"1440\" w:left=\"1800\""
      \o " w:header=\"851\" w:footer=\"992\" w:gutter=\"0\"/>",
      "</w:sectPr>", "</w:body>", "</w:document>">>

(* A loop that renders the elements last to first. *)
RECURSIVE ElementsXMLReversed(_, _)
ElementsXMLReversed(elements, i) ==
    IF i > Len(elements) THEN <<>>
    ELSE ElementsXMLReversed(elements, i + 1) \o ElementToXML(elements[i])

(* The markup of the elements from the i-th on, as the loop of             *)
(* writeDocument appends it.                                               *)
RECURSIVE ElementsXML(_, _)
ElementsXML(elements, i) ==
    IF i > Len(elements) THEN <<>>
    ELSE ElementToXML(elements[i]) \o ElementsXML(elements, i + 1)

(* writeDocument: the body part. *)
DocumentXML(d) == BodyOpen \o ElementsXML(d.elements, 1) \o BodyTrailer

(* ------------------------------- Save --------------------------------- *)
(* An error value: the context a fmt.Errorf("...: %w") wrapped it with     *)
(* ("" when it is returned as it came) and its cause; nil has neither.     *)
NilErr == [ctx |-> "", cause |-> ""]

IOErr(cause) == [ctx |-> "", cause |-> cause]

Wrap(ctx, e) == [ctx |-> ctx, cause |-> e.cause]

(* What the file system and the zip writer answer during one Save: the     *)
(* call that fails (at "none": no call fails; "mkdir": os.MkdirAll;        *)
(* "open": os.Create; "create"/"write": zip Create / the write of part     *)
(* number `part`), whether closing the zip writer fails, and the order in  *)
(* which ranging over the images map yields its keys.                      *)
NoFault == [at |-> "none", part |-> 0]

Faults(nParts) ==
    {NoFault, [at |-> "mkdir", part |-> 0], [at |-> "open", part |-> 0]}
    \cup {[at |-> a, part |-> i] : a \in {"create", "write"}, i \in 1..nParts}

(* Every order in which a Go map with the keys S can be ranged over. *)
Orders(S) ==
    {o \in [1..Cardinality(S) -> S] : \A i, j \in 1..Cardinality(S) : i # j => o[i] # o[j]}

(* A Save that writes the style sheet before the body relationships. *)
FixedPartsStylesEarly(d) ==
    <<[name |-> "[Content_Types].xml", data |-> ContentTypesXML],
      [name |-> "_rels/.rels", data |-> RootRelsXML],
      [name |-> "word/styles.xml", data |-> GenerateStyles(d.config)],
      [name |-> "word/_rels/document.xml.rels", data |-> DocumentRelsXML(d)],
      [name |-> "word/document.xml", data |-> DocumentXML(d)]>>

(* The five fixed parts in the order Save writes them. *)
FixedParts(d) ==
    <<[name |-> "[Content_Types].xml", data |-> ContentTypesXML],
      [name |-> "_rels/.rels", data |-> RootRelsXML],
      [name |-> "word/_rels/document.xml.rels", data |-> DocumentRelsXML(d)],
      [name |-> "word/styles.xml", data |-> GenerateStyles(d.config)],
      [name |-> "word/document.xml", data |-> DocumentXML(d)]>>

(* The media entries, in the order the images map yields its keys. *)
MediaParts(d, order) ==
    [i \in 1..Len(order) |->
        [name |-> "word/media/" \o order[i], data |-> d.images[order[i]].Data]]

(* The position of word/document.xml among the parts. *)
BodyPartIndex == 5

(* A Save that skips a part whose entry cannot be created and goes on     *)
(* with the parts after it.                                                *)
RECURSIVE WritePartsKeepGoing(_, _, _)
WritePartsKeepGoing(parts, i, fault) ==
    IF i > Len(parts) THEN [entries |-> <<>>, err |-> NilErr]
    ELSE IF fault.part = i /\ fault.at = "write"
    THEN [entries |-> <<[name |-> parts[i].name, data |-> <<>>, complete |-> FALSE]>>,
          err |-> IOErr("zip write " \o parts[i].name)]
    ELSE LET rest == WritePartsKeepGoing(parts, i + 1, fault)
         IN  IF fault.part = i /\ fault.at = "create"
             THEN [entries |-> rest.entries,
                   err |-> IOErr("zip create " \o parts[i].name)]
             ELSE [entries |-> <<[name |-> parts[i].name, data |-> parts[i].data,
                                  complete |-> TRUE]>> \o rest.entries,
                   err |-> rest.err]

(* Save's sequence of write calls from part i on: each returns at the      *)
(* first failing call with that call's error, unwrapped.  A part whose     *)
(* entry was created but whose write failed is in the archive, incomplete. *)
RECURSIVE WriteParts(_, _, _)
WriteParts(parts, i, fault) ==
    IF i > Len(parts) THEN [entries |-> <<>>, err |-> NilErr]
    ELSE IF fault.part = i /\ fault.at = "create"
    THEN [entries |-> <<>>, err |-> IOErr("zip create " \o parts[i].name)]
    ELSE IF fault.part = i /\ fault.at = "write"
    THEN [entries |-> <<[name |-> parts[i].name, data |-> <<>>, complete |-> FALSE]>>,
          err |-> IOErr("zip write " \o parts[i].name)]
    ELSE LET rest == WriteParts(parts, i + 1, fault)
         IN  [entries |-> <<[name |-> parts[i].name, data |-> parts[i].data,
                             complete |-> TRUE]>> \o rest.entries,
              err |-> rest.err]

(* Whether Save got as far as rendering the elements: writeDocument        *)
(* renders after it has created its entry.                                 *)
Rendered(fault) ==
    \/ fault.at = "none"
    \/ fault.at \in {"create", "write"} /\ fault.part > BodyPartIndex
    \/ fault.at = "write" /\ fault.part = BodyPartIndex

(* Document.Save, given the parts it is to write: the document after the   *)
(* call (rendering a table writes to its paragraphs), what is on disk, and *)
(* the error returned.  The deferred w.Close() and file.Close() run on     *)
(* every path after os.Create succeeded, and their errors are dropped.     *)
DocSave(d, parts, fault, closeFails) ==
    IF fault.at = "mkdir"
    THEN [doc |-> d,
          disk |-> [dirMade |-> FALSE, fileCreated |-> FALSE, entries |-> <<>>,
                    finalized |-> FALSE],
          err |-> Wrap("create directory failed", IOErr("mkdir"))]
    ELSE IF fault.at = "open"
    THEN [doc |-> d,
          disk |-> [dirMade |-> TRUE, fileCreated |-> FALSE, entries |-> <<>>,
                    finalized |-> FALSE],
          err |-> Wrap("create file failed", IOErr("open"))]
    ELSE LET w == WriteParts(parts, 1, fault)
         IN  [doc |-> IF Rendered(fault)
                      THEN [d EXCEPT !.elements =
                               [i \in 1..Len(d.elements) |-> ElementAfterToXML(d.elements[i])]]
                      ELSE d,
              disk |-> [dirMade |-> TRUE, fileCreated |-> TRUE, entries |-> w.entries,
                        finalized |-> ~closeFails],
              err |-> w.err]

(* ============================ The converter =========================== *)
(* The Markdown parser is a library: the model takes what it returns, the  *)
(* AST, as the converter's input.  Every node is one record: its kind, the *)
(* heading or emphasis level, the destination of a link or image, the      *)
(* language of a fenced block, whether a list is ordered, the segments of  *)
(* the source it covers (one for a Text, one per line for a code block),   *)
(* what the destination of an image resolves to, and its children.  The    *)
(* children of an indented code block are the blocks that parsing its      *)
(* unindented lines again returns.                                         *)
NoResource ==
    [ok |-> FALSE, data |-> <<>>, contentType |-> "", detected |-> "", width |-> 0, height |-> 0]

Node(kind) ==
    [kind |-> kind, level |-> 0, dest |-> "", lang |-> "", ordered |-> FALSE,
     lines |-> <<>>, res |-> NoResource, children |-> <<>>]

(* A segment of the source: the bytes from Start up to, not including, Stop. *)
Seg(start, stop) == [Start |-> start, Stop |-> stop]

(* text.Segment.Value(source) *)
SegValue(seg, source) == SubSeq(source, seg.Start + 1, seg.Stop)

(* A node without its first child: what is left of a loop over the        *)
(* children (child = child.NextSibling()) after one iteration.             *)
Rest(n) == [n EXCEPT !.children = Tail(@)]

(* The converter in a walk is one record st: the Document (doc), the       *)
(* source the Text segments are read from, whether the browser context     *)
(* exists (chrome) and how many were created (created, not a field of the *)
(* code), the error of the walk so far (err), and what the                 *)
(* handler at work is building: the run container p its inlines go to and  *)
(* the table its cells go to.  cx holds what a walk only reads: the Config *)
(* and what the renderers outside the repository answer.                   *)
NoContainer == [kind |-> "none"]

(* RunContainer.AddRun and its siblings on the container at work: a        *)
(* Paragraph appends to Children, a Hyperlink to Runs.                     *)
ContainerAdd(st, run) ==
    [st EXCEPT !.p = IF @.kind = "link" THEN [@ EXCEPT !.Runs = Append(@, run)]
                     ELSE AddChild(@, run)]

(* 1 pixel is 9525 EMU. *)
EMUPerPixel == 9525

(* rID := c.doc.AddImage(data, contentType, width, height) followed by     *)
(* p.AddImageRun(rID, displayW*9525, displayH*9525).                       *)
AddImageTo(st, data, contentType, width, height, displayW, displayH) ==
    LET r == DocAddImage(st.doc, data, contentType, width, height)
    IN  ContainerAdd([st EXCEPT !.doc = r.doc],
                     ImageRun(r.rID, displayW * EMUPerPixel, displayH * EMUPerPixel))

(* c.doc.AddParagraph(p) for the container at work. *)
AppendContainer(st) == [st EXCEPT !.doc = DocAddParagraph(@, st.p), !.p = NoContainer]

(* What RenderMathJax returns for a formula when it succeeds: bytes that   *)
(* getImageDimensions measures.                                            *)
MathImage == [data |-> <<"formula-png">>, width |-> 120, height |-> 40]

(* What RenderMermaidWithContext returns when it succeeds. *)
MermaidImage == [data |-> <<"mermaid-png">>, width |-> 800, height |-> 600]

(* run := p.AddRun(text); run.Bold = bold; run.Italic = italic *)
BoldItalicRun(text, bold, italic) == [TextRun(text) EXCEPT !.Bold = bold, !.Italic = italic]

(* The run of a Text node under a code span. *)
CodeRun(cfg, text) ==
    [TextRun(text) EXCEPT
        !.IsCode = TRUE,
        !.FontName = IF cfg.Code.Font = "" THEN "Consolas" ELSE cfg.Code.Font,
        !.FontSize = IF cfg.Code.Size = 0 THEN 105 ELSE cfg.Code.Size,
        !.Color = IF cfg.Code.Color # <<>> THEN TrimPrefix(cfg.Code.Color, <<"#">>) ELSE <<>>]

(* strings.Index(s[from:], c) as a position of s counted from 1; 0 when    *)
(* there is none.                                                          *)
IndexFrom(s, from, c) ==
    LET hits == {i \in from..Len(s) : s[i] = c}
    IN  IF hits = {} THEN 0 ELSE CHOOSE i \in hits : \A j \in hits : i <= j

(* The loop of processTextWithInlineFormulas from position start (counted  *)
(* from 1) on.                                                             *)
RECURSIVE FormulaLoop(_, _, _, _, _, _)
FormulaLoop(cx, st, text, start, bold, italic) ==
    LET idx == IndexFrom(text, start, "$")
        end == IndexFrom(text, idx + 1, "$")
        rest == IF start <= Len(text)
                THEN ContainerAdd(st, BoldItalicRun(SubSeq(text, start, Len(text)), bold, italic))
                ELSE st
        before == IF idx > start
                  THEN ContainerAdd(st, BoldItalicRun(SubSeq(text, start, idx - 1), bold, italic))
                  ELSE st
    IN  IF idx = 0 THEN rest
        ELSE IF idx > 1 /\ text[idx - 1] = "\\"
        THEN FormulaLoop(cx,
                         ContainerAdd(st, BoldItalicRun(SubSeq(text, start, idx - 2) \o <<"$">>,
                                                        bold, italic)),
                         text, idx + 1, bold, italic)
        ELSE IF end = 0 THEN rest
        ELSE FormulaLoop(cx,
                         IF cx.env.mathOk
                         THEN AddImageTo(before, MathImage.data, "image/png",
                                         MathImage.width, MathImage.height,
                                         MathImage.width, MathImage.height)
                         ELSE ContainerAdd(before,
                                           BoldItalicRun(<<"$">> \o SubSeq(text, idx + 1, end - 1)
                                                         \o <<"$">>, bold, italic)),
                         text, end + 1, bold, italic)

(* processTextWithInlineFormulas: it takes the strike flag and does not    *)
(* use it.                                                                 *)
ProcessTextWithInlineFormulas(cx, st, text, bold, italic, strike) ==
    FormulaLoop(cx, st, text, 1, bold, italic)

(* int(float64(h) * (float64(maxWidth) / float64(w))) for the sizes of the *)
(* model, whose products are exact.                                        *)
ScaleHeight(h, maxWidth, w) == (h * maxWidth) \div w

(* An image handler that shows the image in the container and does not     *)
(* register it.                                                            *)
ProcessImageUnregistered(cx, st, n) ==
    IF ~n.res.ok THEN st
    ELSE ContainerAdd(st, ImageRun(ImageRID(st.doc.imageCount + 1),
                                   n.res.width * EMUPerPixel, n.res.height * EMUPerPixel))

(* processImage: an image that does not load leaves no trace; one wider    *)
(* than the configured width is shown scaled down.                         *)
ProcessImage(cx, st, n) ==
    LET contentType == IF n.res.contentType \in {"", "application/octet-stream"}
                       THEN n.res.detected ELSE n.res.contentType
        maxWidth == cx.config.MaxWidth
    IN  IF ~n.res.ok THEN st
        ELSE IF n.res.width > maxWidth
        THEN AddImageTo(st, n.res.data, contentType, n.res.width, n.res.height,
                        maxWidth, ScaleHeight(n.res.height, maxWidth, n.res.width))
        ELSE AddImageTo(st, n.res.data, contentType, n.res.width, n.res.height,
                        n.res.width, n.res.height)

(* rID := c.doc.AddHyperlink(url); link := para.AddHyperlink(rID): the     *)
(* link becomes the container.                                             *)
OpenLink(st, url) ==
    LET r == DocAddHyperlink(st.doc, url)
    IN  [st EXCEPT !.doc = r.doc, !.p = NewHyperlink(r.rID)]

(* The default link blue of Word. *)
LinkColour == <<"0", "5", "6", "3", "C", "1">>

(* An end of the Link case that gives every run the link colour. *)
CloseLinkRecolouring(para, st) ==
    [st EXCEPT !.p =
        AddChild(para,
                 [st.p EXCEPT
                     !.Runs = [i \in 1..Len(st.p.Runs) |->
                                 [st.p.Runs[i] EXCEPT !.Color = LinkColour,
                                                      !.Underline = TRUE]],
                     !.styled = Append(@, Len(st.p.Runs))])]

(* The end of the Link case: every run of the link gets the link colour    *)
(* unless it has a colour, and an underline; para, which the link was      *)
(* appended to when it was made, is the container again.                   *)
CloseLink(para, st) ==
    [st EXCEPT !.p =
        AddChild(para,
                 [st.p EXCEPT
                     !.Runs = [i \in 1..Len(st.p.Runs) |->
                                 [st.p.Runs[i] EXCEPT
                                     !.Color = IF @ = <<>> THEN LinkColour ELSE @,
                                     !.Underline = TRUE]],
                     !.styled = Append(@, Len(st.p.Runs))])]

(* processInlineNode.  A loop over the children handles the first child    *)
(* and then the node without it.  The children of a link are processed as  *)
(* those of a link met in a link are, with the link as the container: they *)
(* append to the link only.                                                *)
RECURSIVE ProcessInlineNode(_, _, _, _, _, _, _)
ProcessInlineNode(cx, st, n, bold, italic, code, strike) ==
    IF n.kind \in {"Emphasis", "CodeSpan", "Strikethrough"}
       \/ (n.kind = "Link" /\ st.p.kind = "link")
    THEN IF n.children = <<>> THEN st
         ELSE ProcessInlineNode(cx,
                                ProcessInlineNode(cx, st, Head(n.children),
                                                  bold \/ (n.kind = "Emphasis" /\ n.level = 2),
                                                  italic \/ (n.kind = "Emphasis" /\ n.level = 1),
                                                  code \/ n.kind = "CodeSpan",
                                                  strike \/ n.kind = "Strikethrough"),
                                Rest(n), bold, italic, code, strike)
    ELSE CASE n.kind = "Text" ->
                IF code
                THEN ContainerAdd(st, CodeRun(cx.config, SegValue(n.lines[1], st.source)))
                ELSE ProcessTextWithInlineFormulas(cx, st, SegValue(n.lines[1], st.source),
                                                   bold, italic, strike)
           [] n.kind = "Link" ->
                CloseLink(st.p, ProcessInlineNode(cx, OpenLink(st, n.dest), n,
                                                  bold, italic, code, strike))
           [] n.kind = "Image" -> ProcessImage(cx, st, n)
           [] OTHER -> st

(* processInlineNodes: the children of parent, no flag set. *)
RECURSIVE ProcessInlineNodes(_, _, _)
ProcessInlineNodes(cx, st, parent) ==
    IF parent.children = <<>> THEN st
    ELSE ProcessInlineNodes(cx,
                            ProcessInlineNode(cx, st, Head(parent.children),
                                              FALSE, FALSE, FALSE, FALSE),
                            Rest(parent))

(* strings.ToLower on the language names of the model. *)
ToLower(lang) ==
    CASE lang = "Mermaid" -> "mermaid"
      [] lang = "LaTeX"   -> "latex"
      [] OTHER            -> lang

(* The lines of a code block joined. *)
LinesValue(n, source) == Flatten([i \in 1..Len(n.lines) |-> SegValue(n.lines[i], source)])

(* processHeading *)
ProcessHeading(cx, st, node) ==
    AppendContainer(
        ProcessInlineNodes(cx,
            [st EXCEPT !.p =
                [NewParagraph("Heading" \o Itoa(IF node.level > 9 THEN 9 ELSE node.level))
                    EXCEPT !.LineHeight = cx.config.Body.LineHeight]],
            node))

(* The end of processParagraph: a paragraph without children is not        *)
(* appended.                                                               *)
AppendIfAny(st) ==
    IF Len(st.p.Children) > 0 THEN AppendContainer(st) ELSE [st EXCEPT !.p = NoContainer]

(* processParagraph *)
ProcessParagraph(cx, st, node) ==
    AppendIfAny(
        ProcessInlineNodes(cx,
            [st EXCEPT !.p =
                [NewParagraph("") EXCEPT
                    !.SpacingA = cx.config.Body.SpaceBefore,
                    !.SpacingB = cx.config.Body.SpaceAfter,
                    !.LineHeight = cx.config.Body.LineHeight,
                    !.FirstLineIndent = cx.config.Body.FirstLineIndent]],
            node))

(* processTextBlock *)
ProcessTextBlock(cx, st, node) ==
    AppendContainer(ProcessInlineNodes(cx, [st EXCEPT !.p = NewParagraph("")], node))

(* The paragraph of one line of a code block. *)
CodeParagraph(lineSpacing, lineHeight) ==
    [NewParagraph("") EXCEPT !.SpacingA = lineSpacing \div 2,
                             !.SpacingB = lineSpacing \div 2,
                             !.LineHeight = lineHeight]

(* What the lexer returns for a code: the lexer is a library, and the model *)
(* takes its answer to be one token of the plain style holding the code.   *)
Tokenise(code) == <<[Value |-> code, Colour |-> <<>>, Bold |-> FALSE, Italic |-> FALSE]>>

(* The loop of HighlightCodeNative over the lines of one token: every line *)
(* but the token's first starts a paragraph, an empty line adds no run.    *)
RECURSIVE HighlightLines(_, _, _, _, _, _)
HighlightLines(paras, token, lines, first, runOf, newParagraph) ==
    IF lines = <<>> THEN paras
    ELSE LET started == IF first THEN paras ELSE Append(paras, newParagraph)
             filled == IF Head(lines) # <<>>
                       THEN [started EXCEPT ![Len(started)] =
                               AddChild(@, [runOf EXCEPT
                                   !.Text = Head(lines),
                                   !.Color = IF token.Colour # <<>>
                                             THEN TrimPrefix(token.Colour, <<"#">>) ELSE <<>>,
                                   !.Bold = token.Bold, !.Italic = token.Italic])]
                       ELSE started
         IN  HighlightLines(filled, token, Tail(lines), FALSE, runOf, newParagraph)

(* The loop of HighlightCodeNative over the tokens. *)
RECURSIVE HighlightTokens(_, _, _, _)
HighlightTokens(paras, tokens, runOf, newParagraph) ==
    IF tokens = <<>> THEN paras
    ELSE HighlightTokens(HighlightLines(paras, Head(tokens), Split(Head(tokens).Value, "\n"),
                                        TRUE, runOf, newParagraph),
                         Tail(tokens), runOf, newParagraph)

(* HighlightCodeNative: the cell after the call and the error returned. *)
HighlightCodeNative(cell, code, fontName, fontSize, lineSpacing, lineHeight, lexOk) ==
    IF ~lexOk THEN [cell |-> cell, err |-> IOErr("tokenise")]
    ELSE [cell |-> [cell EXCEPT !.Paragraphs =
                      HighlightTokens(Append(@, CodeParagraph(lineSpacing, lineHeight)),
                                      Tokenise(code),
                                      [ZeroRun EXCEPT !.FontName = fontName,
                                                      !.FontSize = fontSize],
                                      CodeParagraph(lineSpacing, lineHeight))],
          err |-> NilErr]

(* An ensureChrome that makes a context at every call. *)
EnsureChromeAlways(cx, st) ==
    IF cx.env.chromeFound THEN [st EXCEPT !.chrome = TRUE, !.created = @ + 1]
    ELSE [st EXCEPT !.err = IOErr("chrome not found")]

(* ensureChrome: the context is made once and kept; no browser, no context. *)
EnsureChrome(cx, st) ==
    IF st.chrome THEN st
    ELSE IF cx.env.chromeFound THEN [st EXCEPT !.chrome = TRUE, !.created = @ + 1]
    ELSE [st EXCEPT !.err = IOErr("chrome not found")]

(* processMermaid, entered with the result of ensureChrome: without a      *)
(* browser the walk fails; a diagram that does not render becomes a boxed  *)
(* paragraph with the code; one that renders becomes a centred image, no   *)
(* wider than the configured width.                                        *)
ProcessMermaid(cx, st, node) ==
    LET maxWidth == cx.config.MaxWidth
        width == IF MermaidImage.width > maxWidth THEN maxWidth ELSE MermaidImage.width
        height == IF MermaidImage.width > maxWidth
                  THEN ScaleHeight(MermaidImage.height, maxWidth, MermaidImage.width)
                  ELSE MermaidImage.height
        failed == [NewParagraph("") EXCEPT
                      !.Shading = <<"F", "F", "F", "3", "C", "D">>, !.Border = TRUE,
                      !.Children =
                          <<[TextRun(<<"[", "f", "a", "i", "l", "e", "d", "]", "\n">>)
                                EXCEPT !.Bold = TRUE],
                            [TextRun(<<"c", "o", "d", "e", ":", "\n">>
                                     \o LinesValue(node, st.source))
                                EXCEPT !.FontName = "Consolas"]>>]
    IN  IF st.err # NilErr
        THEN [st EXCEPT !.err = Wrap("start browser failed", @)]
        ELSE IF ~cx.env.mermaidOk
        THEN AppendContainer([st EXCEPT !.p = failed])
        ELSE AppendContainer(
                 AddImageTo([st EXCEPT !.p = [NewParagraph("") EXCEPT !.Align = "center"]],
                            MermaidImage.data, "image/png", width, height, width, height))

(* renderMathAsImage: a formula that does not render fails the walk. *)
RenderMathAsImage(cx, st, latex, display) ==
    IF ~cx.env.mathOk THEN [st EXCEPT !.err = IOErr("mathjax")]
    ELSE AppendContainer(
             AddImageTo([st EXCEPT !.p = [NewParagraph("") EXCEPT
                                             !.Align = IF display THEN "center" ELSE ""]],
                        MathImage.data, "image/png", MathImage.width, MathImage.height,
                        MathImage.width, MathImage.height))

(* processFencedCodeBlock: a diagram, a formula, or a one-cell table with  *)
(* the code, followed by an empty paragraph.                               *)
ProcessFencedCodeBlock(cx, st, node) ==
    LET lang == ToLower(node.lang)
        style == cx.config.CodeBlock
        fontName == IF style.Font = "" THEN "Consolas" ELSE style.Font
        fontSize == IF style.Size = 0 THEN 95 ELSE style.Size
        code == LinesValue(node, st.source)
        h == HighlightCodeNative([NewCell EXCEPT !.Shading = "F6F8FA"], code, fontName,
                                 fontSize, style.LineSpacing, style.LineHeight, cx.env.lexOk)
        fallback == AddChild(CodeParagraph(style.LineSpacing, style.LineHeight),
                             [TextRun(code) EXCEPT !.FontName = fontName,
                                                   !.FontSize = fontSize])
        filled == IF h.err # NilErr THEN CellAddParagraph(h.cell, fallback) ELSE h.cell
        table == [NewTable EXCEPT !.HasBorders = TRUE,
                                  !.Rows = <<[NewRow(FALSE) EXCEPT !.Cells = <<filled>>]>>]
    IN  IF lang = "mermaid" /\ cx.config.MermaidEnabled
        THEN ProcessMermaid(cx, EnsureChrome(cx, st), node)
        ELSE IF lang = "math" \/ lang = "latex"
        THEN RenderMathAsImage(cx, st, code, TRUE)
        ELSE [st EXCEPT !.doc = DocAddParagraph(DocAddParagraph(@, table), NewParagraph(""))]

(* fmt.Sprintf("%d", n) as characters. *)
RECURSIVE Digits(_)
Digits(n) == IF n < 10 THEN <<ToString(n)>> ELSE Digits(n \div 10) \o <<ToString(n % 10)>>

(* The bullet character of an unordered item. *)
Bullet == "U+2022"

(* The loop of processListItem over the item's children: a nested list is *)
(* processed one level down, anything else adds its inlines to the item's  *)
(* paragraph.                                                              *)
RECURSIVE ProcessList(_, _, _, _), ProcessItemChildren(_, _, _, _)
ProcessItemChildren(cx, st, node, level) ==
    IF node.children = <<>> THEN st
    ELSE ProcessItemChildren(cx,
                             IF Head(node.children).kind = "List"
                             THEN ProcessList(cx, st, Head(node.children), level + 1)
                             ELSE ProcessInlineNodes(cx, st, Head(node.children)),
                             Rest(node), level)

(* processListItem: the item's paragraph, behind its marker, is appended   *)
(* after the paragraphs of the lists nested in the item; the paragraph of  *)
(* the item the list is nested in is the container again.                  *)
ProcessListItem(cx, st, node, isOrdered, index, level) ==
    [AppendContainer(
         ProcessItemChildren(cx,
             [st EXCEPT !.p =
                 AddChild([NewParagraph("") EXCEPT !.Indent = (level + 1) * 360,
                                                   !.LineHeight = cx.config.Body.LineHeight],
                          [TextRun(IF isOrdered THEN Digits(index) \o <<".", " ">>
                                   ELSE <<Bullet, " ">>)
                              EXCEPT !.Bold = TRUE])],
             node, level))
        EXCEPT !.p = st.p]

(* The loop of processList from the item numbered index on. *)
RECURSIVE ProcessListFrom(_, _, _, _, _)
ProcessListFrom(cx, st, node, index, level) ==
    IF node.children = <<>> THEN st
    ELSE IF Head(node.children).kind = "ListItem"
    THEN ProcessListFrom(cx, ProcessListItem(cx, st, Head(node.children), node.ordered,
                                             index, level),
                         Rest(node), index + 1, level)
    ELSE ProcessListFrom(cx, st, Rest(node), index, level)

(* processList: the items are numbered from 1 in the order of the list. *)
ProcessList(cx, st, node, level) == ProcessListFrom(cx, st, node, 1, level)

(* processBlockquote: one shaded paragraph per child. *)
RECURSIVE ProcessBlockquote(_, _, _)
ProcessBlockquote(cx, st, node) ==
    IF node.children = <<>> THEN st
    ELSE ProcessBlockquote(cx,
             AppendContainer(
                 [ProcessInlineNodes(cx, [st EXCEPT !.p = NewParagraph("")],
                                     Head(node.children))
                     EXCEPT !.p.Shading = <<"F", "0", "F", "0", "F", "0">>,
                            !.p.Border = TRUE, !.p.Indent = 360,
                            !.p.LineHeight = cx.config.Body.LineHeight]),
             Rest(node))

(* processThematicBreak *)
ProcessThematicBreak(st) ==
    [st EXCEPT !.doc = DocAddParagraph(@, [NewParagraph("") EXCEPT !.HorizontalRule = TRUE,
                                                                    !.SpacingA = 120,
                                                                    !.SpacingB = 120])]

(* c_cell := r.AddCell(); c_cell.AddParagraph(p): the container becomes    *)
(* the only paragraph of a new cell of the table's last row.               *)
AddCell(st) ==
    [st EXCEPT !.table.Rows[Len(st.table.Rows)].Cells =
                   Append(@, CellAddParagraph(NewCell, st.p)),
               !.p = NoContainer]

(* The loop of processTable over the cells of one row. *)
RECURSIVE ProcessTableRow(_, _, _)
ProcessTableRow(cx, st, row) ==
    IF row.children = <<>> THEN st
    ELSE ProcessTableRow(cx,
                         AddCell(ProcessInlineNodes(cx, [st EXCEPT !.p = NewParagraph("")],
                                                    Head(row.children))),
                         Rest(row))

(* The loop of processTable over the rows: no row is a header row. *)
RECURSIVE ProcessTableRows(_, _, _)
ProcessTableRows(cx, st, node) ==
    IF node.children = <<>> THEN st
    ELSE ProcessTableRows(cx,
                          ProcessTableRow(cx, [st EXCEPT !.table.Rows = Append(@, NewRow(FALSE))],
                                          Head(node.children)),
                          Rest(node))

(* c.doc.AddParagraph(docx.NewTableElement(table)) *)
AppendTable(st) == [st EXCEPT !.doc = DocAddParagraph(@, st.table), !.table = NewTable]

(* processTable *)
ProcessTable(cx, st, node) ==
    AppendTable(ProcessTableRows(cx, [st EXCEPT !.table = [NewTable EXCEPT !.HasBorders = TRUE]],
                                 node))

(* The line of an indented code block without its four spaces. *)
Unindent(line) == TrimPrefix(line, <<" ", " ", " ", " ">>)

(* walkNode: processNode on every child, up to the first error. *)
RECURSIVE ProcessNode(_, _, _), WalkNode(_, _, _)
WalkNode(cx, st, n) ==
    IF n.children = <<>> \/ st.err # NilErr THEN st
    ELSE WalkNode(cx, ProcessNode(cx, st, Head(n.children)), Rest(n))

(* A processCodeBlock that returns an error of a child without putting    *)
(* the source back.                                                        *)
RestoreSourceUnlessError(st, originalSource) ==
    IF st.err # NilErr THEN st ELSE [st EXCEPT !.source = originalSource]

(* c.source = originalSource *)
RestoreSource(st, originalSource) == [st EXCEPT !.source = originalSource]

(* processCodeBlock walks the blocks of its content parsed again (the      *)
(* node's children) with the content, each line without its indent of      *)
(* four spaces, as the source, and puts the source back on both ways out:  *)
(* before it returns the error of a child, and after the last child.       *)
ProcessCodeBlock(cx, st, node) ==
    RestoreSource(
        WalkNode(cx,
                 [st EXCEPT !.source =
                     Flatten([i \in 1..Len(node.lines) |->
                                 Unindent(SegValue(node.lines[i], @))])],
                 node),
        st.source)

(* processNode *)
ProcessNode(cx, st, n) ==
    CASE n.kind = "Heading"         -> ProcessHeading(cx, st, n)
      [] n.kind = "Paragraph"       -> ProcessParagraph(cx, st, n)
      [] n.kind = "TextBlock"       -> ProcessTextBlock(cx, st, n)
      [] n.kind = "FencedCodeBlock" -> ProcessFencedCodeBlock(cx, st, n)
      [] n.kind = "CodeBlock"       -> ProcessCodeBlock(cx, st, n)
      [] n.kind = "List"            -> ProcessList(cx, st, n, 0)
      [] n.kind = "Blockquote"      -> ProcessBlockquote(cx, st, n)
      [] n.kind = "ThematicBreak"   -> ProcessThematicBreak(st)
      [] n.kind = "Table"           -> ProcessTable(cx, st, n)
      [] OTHER                      -> WalkNode(cx, st, n)

(* ====================== The Document's operations ===================== *)
(* doc: the Document.  op, ret: the last operation called on it and the    *)
(* relationship ID it returned.  appended, registered, linked: the calls   *)
(* made so far, in call order: the elements passed to AddParagraph, the    *)
(* bytes passed to AddImage with the ID it returned, the targets passed to *)
(* AddHyperlink with the ID it returned.  disk, err: what the last Save    *)
(* left on disk and returned.  env: what the file system answered during   *)
(* that Save.  The caller is the one the repository has, Convert:   *)
(* it builds the Document, saves it once and does not touch it again.      *)
VARIABLES doc, op, ret, appended, registered, linked, disk, err, env

(* rin, rout: a Run and the markup Run.ToXML returned for it (<<>> before  *)
(* the call).                                                              *)
VARIABLES rin, rout

(* cv: a conversion: where Convert is ("idle" when none runs, "walking"    *)
(* while it walks the tree, "failed" when the walk returned an error,      *)
(* "saved" when Save returned), the converter's source and whether its     *)
(* browser context exists, how many top-level nodes it has processed and   *)
(* how many times it has called Save.  node is not a field of the code: it *)
(* is the top-level node the walk processed last (the root before any),    *)
(* nor are created and cancelled: how many browser contexts the conversion *)
(* has created and how many it has cancelled.                              *)
VARIABLES cv

docVars == <<doc, op, ret, appended, registered, linked, disk, err, env>>

renderVars == <<rin, rout>>

convVars == <<cv>>

vars == <<docVars, renderVars, convVars>>

NoDisk == [dirMade |-> FALSE, fileCreated |-> FALSE, entries |-> <<>>, finalized |-> FALSE]

NoEnv == [fault |-> NoFault, closeFails |-> FALSE, order |-> <<>>]

(* Inputs of the operations. *)
ImageInputs ==
    {[data |-> <<"png-bytes">>, contentType |-> "image/png", width |-> 300, height |-> 200],
     [data |-> <<"jpeg-bytes">>, contentType |-> "image/jpeg", width |-> 800, height |-> 600]}
    \cup {[data |-> <<"bytes">>, contentType |-> t, width |-> 10, height |-> 10] :
             t \in {"image/gif", "image/svg+xml", "", "application/octet-stream"}}

LinkTargets == {"https://example.com"}

Hello == <<"h", "e", "l", "l", "o">>

(* The elements a caller appends: a plain paragraph, a paragraph showing   *)
(* the relationship last registered (as an image or as a link), and a      *)
(* table with an empty cell and a centred cell holding a paragraph without *)
(* an alignment and a paragraph aligned to the right.                      *)
ElementInputs(lastOp, rID) ==
    {AddChild(NewParagraph(""), TextRun(Hello))}
    \cup (IF lastOp = "AddImage"
          THEN {AddChild(NewParagraph("Heading1"), ImageRun(rID, 2857500, 1905000))}
          ELSE IF lastOp = "AddHyperlink"
          THEN {AddChild(NewParagraph(""),
                         [NewHyperlink(rID) EXCEPT !.Runs = <<TextRun(<<"a", " ">>)>>])}
          ELSE {[NewTable EXCEPT !.Rows =
                    <<[NewRow(FALSE) EXCEPT !.Cells =
                         <<NewCell,
                           CellAddParagraph(
                               CellAddParagraph(
                                   [NewCell EXCEPT !.Align = "center"],
                                   AddChild(NewParagraph(""), TextRun(<<"x">>))),
                               [AddChild(NewParagraph(""), TextRun(<<"y">>))
                                   EXCEPT !.Align = "right"])>>]>>]})

(* The state after NewDocument(cfg). *)
DocInit(cfg) ==
    /\ doc = NewDocument(cfg)
    /\ op = "NewDocument"
    /\ ret = ""
    /\ appended = <<>>
    /\ registered = <<>>
    /\ linked = <<>>
    /\ disk = NoDisk
    /\ err = NilErr
    /\ env = NoEnv

RenderIdle == rin = ZeroRun /\ rout = <<>>

NoConversion ==
    [phase |-> "idle", source |-> <<>>, chrome |-> FALSE, processed |-> 0, saves |-> 0,
     node |-> Node("Document"), created |-> 0, cancelled |-> 0]

ConvIdle == cv = NoConversion

Init == DocInit(FullConfig) /\ RenderIdle /\ ConvIdle

(* The number the next AddImage or AddHyperlink call has among the calls   *)
(* of both kinds.                                                          *)
NextSeq == Len(registered) + Len(linked) + 1

AddParagraph ==
    /\ op # "Save"
    /\ Len(doc.elements) < MaxElements
    /\ \E e \in ElementInputs(op, ret) :
          /\ doc' = DocAddParagraph(doc, e)
          /\ appended' = Append(appended, e)
    /\ op' = "AddParagraph"
    /\ ret' = ""
    /\ UNCHANGED <<registered, linked, disk, err, env, renderVars, convVars>>

AddImage ==
    /\ op # "Save"
    /\ Len(doc.contentRels) < MaxRelCalls
    /\ \E in \in ImageInputs :
          LET r == DocAddImage(doc, in.data, in.contentType, in.width, in.height)
          IN  /\ doc' = r.doc
              /\ ret' = r.rID
              /\ registered' = Append(registered, [data |-> in.data, rID |-> r.rID,
                                                  seq |-> NextSeq,
                                                  contentType |-> in.contentType])
    /\ op' = "AddImage"
    /\ UNCHANGED <<appended, linked, disk, err, env, renderVars, convVars>>

AddHyperlink ==
    /\ op # "Save"
    /\ Len(doc.contentRels) < MaxRelCalls
    /\ \E target \in LinkTargets :
          LET r == DocAddHyperlink(doc, target)
          IN  /\ doc' = r.doc
              /\ ret' = r.rID
              /\ linked' = Append(linked, [target |-> target, rID |-> r.rID, seq |-> NextSeq])
    /\ op' = "AddHyperlink"
    /\ UNCHANGED <<appended, registered, disk, err, env, renderVars, convVars>>

(* A call of Document.Save.  The parts are bound once per call; the       *)
(* answers of the file system and the map's order are the call's inputs.   *)
SaveCall ==
    /\ \E fixed \in {FixedParts(doc)}, order \in Orders(DOMAIN doc.images) :
          LET parts == fixed \o MediaParts(doc, order)
          IN  \E fault \in Faults(Len(parts)), closeFails \in BOOLEAN :
                 LET r == DocSave(doc, parts, fault, closeFails)
                 IN  /\ doc' = r.doc
                     /\ disk' = r.disk
                     /\ err' = r.err
                     /\ env' = [fault |-> fault, closeFails |-> closeFails,
                                order |-> order]
    /\ op' = "Save"
    /\ ret' = ""
    /\ UNCHANGED <<appended, registered, linked, renderVars>>

Save ==
    /\ op # "Save"
    /\ SaveCall
    /\ UNCHANGED convVars

Next == AddParagraph \/ AddImage \/ AddHyperlink \/ Save

Spec == Init /\ [][Next]_vars

(* ================== A long registration sequence ====================== *)
(* The same operations driven by a caller that registers any hyperlinks    *)
(* among its first MaxEarlyLinks calls and only images after them, one     *)
(* image input throughout, for up to MaxLongCalls calls.                   *)
LongImage == [data |-> <<"png-bytes">>, contentType |-> "image/png", width |-> 300, height |-> 200]

LongAddHyperlink ==
    /\ Len(doc.contentRels) < MaxEarlyLinks
    /\ \E target \in LinkTargets :
          LET r == DocAddHyperlink(doc, target)
          IN  /\ doc' = r.doc
              /\ ret' = r.rID
              /\ linked' = Append(linked, [target |-> target, rID |-> r.rID, seq |-> NextSeq])
    /\ op' = "AddHyperlink"
    /\ UNCHANGED <<appended, registered, disk, err, env, renderVars, convVars>>

LongAddImage ==
    /\ Len(doc.contentRels) < MaxLongCalls
    /\ LET r == DocAddImage(doc, LongImage.data, LongImage.contentType,
                            LongImage.width, LongImage.height)
       IN  /\ doc' = r.doc
           /\ ret' = r.rID
           /\ registered' = Append(registered, [data |-> LongImage.data, rID |-> r.rID,
                                               seq |-> NextSeq,
                                               contentType |-> LongImage.contentType])
    /\ op' = "AddImage"
    /\ UNCHANGED <<appended, linked, disk, err, env, renderVars, convVars>>

InitLong == DocInit(BareConfig) /\ RenderIdle /\ ConvIdle

NextLong == LongAddHyperlink \/ LongAddImage

SpecLong == InitLong /\ [][NextLong]_vars

(* ========================= Rendering one Run ========================== *)
(* The characters run texts are drawn from: a letter, a space, a newline   *)
(* and a markup character.                                                 *)
TextAlphabet == {"a", " ", "\n", "<"}

Texts == UNION {[1..n -> TextAlphabet] : n \in 0..MaxTextLen}

(* Font sizes in tenths of a point: 9, 10.5 and sizes whose double is not  *)
(* whole, one of them negative.                                            *)
FontSizes == {90, 105, 102, 103, 75, 0 - 103}

(* The runs rendered: every text, plain or bold, and one text in every     *)
(* font size.                                                              *)
RunInputs ==
    {FormattedRun(t, b, FALSE, FALSE) : t \in Texts, b \in BOOLEAN}
    \cup {[TextRun(<<"a">>) EXCEPT !.FontSize = size] : size \in FontSizes}
    \cup {[FormattedRun(<<"a">>, b, i, c) EXCEPT !.Underline = u, !.Strike = s,
                                                 !.FontName = f, !.Color = col] :
             b \in BOOLEAN, i \in BOOLEAN, c \in BOOLEAN, u \in BOOLEAN,
             s \in BOOLEAN, f \in {"", "SimSun"}, col \in {<<>>, <<"#", "F">>}}
    \cup {CodeRun(cfg, <<"a">>) : cfg \in Configs}

InitRun == DocInit(BareConfig) /\ ConvIdle /\ rin \in RunInputs /\ rout = <<>>

Render ==
    /\ rout = <<>>
    /\ rout' = RunToXML(rin)
    /\ UNCHANGED <<rin, docVars, convVars>>

NextRun == Render

SpecRun == InitRun /\ [][NextRun]_vars

(* ======================= Rendering one paragraph ====================== *)
(* Paragraph.ToXML on one Paragraph; rin is the Paragraph, rout the markup *)
(* returned for it.                                                        *)

(* Values of the int fields Indent and FirstLineIndent. *)
IndentValues == {0, 360, 0 - 360}

(* Paragraphs over the values of every field that ToXML reads. *)
ParagraphInputs ==
    {[NewParagraph(s) EXCEPT !.Align = a, !.Indent = i, !.FirstLineIndent = f,
                             !.SpacingB = sb, !.SpacingA = sa, !.Shading = sh,
                             !.Border = b, !.HorizontalRule = h, !.LineHeight = lh,
                             !.Children = c] :
        s \in {"", "Heading1"}, a \in {"", "center"}, i \in IndentValues,
        f \in IndentValues, sb \in {0, 120}, sa \in {0, 120},
        sh \in {<<>>, <<"#", "F">>}, b \in BOOLEAN, h \in BOOLEAN,
        lh \in {0, 480}, c \in {<<>>, <<TextRun(<<"a">>)>>}}

InitParagraph ==
    DocInit(BareConfig) /\ ConvIdle /\ rin \in ParagraphInputs /\ rout = <<>>

RenderParagraph ==
    /\ rout = <<>>
    /\ rout' = ParagraphToXML(rin)
    /\ UNCHANGED <<rin, docVars, convVars>>

NextParagraph == RenderParagraph

SpecParagraph == InitParagraph /\ [][NextParagraph]_vars

(* ========================== Block formulas ============================ *)
(* IsBlockFormula and ExtractBlockFormula on one text; rin is the text,    *)
(* rout what the two calls returned.                                       *)

(* The white space strings.TrimSpace removes, as far as texts hold it. *)
WhiteSpace == {" ", "\t", "\n", "\r"}

(* strings.TrimSpace: the text from its first to its last character that   *)
(* is not white space.                                                     *)
TrimSpace(s) ==
    LET keep == {i \in 1..Len(s) : s[i] \notin WhiteSpace}
    IN  IF keep = {} THEN <<>>
        ELSE SubSeq(s, CHOOSE i \in keep : \A k \in keep : i <= k,
                       CHOOSE i \in keep : \A k \in keep : i >= k)

Dollars == <<"$", "$">>

IsBlockFormula(text) ==
    HasPrefix(TrimSpace(text), Dollars) /\ HasSuffix(TrimSpace(text), Dollars)

(* ExtractBlockFormula.  The slice trimmed[2 : len(trimmed)-2] panics      *)
(* (slice bounds out of range) when its low index exceeds its high one;    *)
(* no value is returned then.                                              *)
ExtractBlockFormula(text) ==
    IF IsBlockFormula(text)
    THEN IF 2 > Len(TrimSpace(text)) - 2
         THEN [panic |-> TRUE, value |-> <<>>]
         ELSE [panic |-> FALSE,
               value |-> TrimSpace(SubSeq(TrimSpace(text), 3, Len(TrimSpace(text)) - 2))]
    ELSE [panic |-> FALSE, value |-> text]

(* Texts of delimiters, white space and a letter. *)
FormulaTexts == UNION {[1..n -> {"$", " ", "x"}] : n \in 0..MaxFormulaLen}

InitFormula ==
    DocInit(BareConfig) /\ ConvIdle /\ rin \in FormulaTexts /\ rout = <<>>

ExtractFormula ==
    /\ rout = <<>>
    /\ rout' = [isBlock |-> IsBlockFormula(rin), extracted |-> ExtractBlockFormula(rin)]
    /\ UNCHANGED <<rin, docVars, convVars>>

NextFormula == ExtractFormula

SpecFormula == InitFormula /\ [][NextFormula]_vars

(* ============================ A conversion ============================ *)
(* Convert(content, outputPath): the walk over the top-level nodes of the  *)
(* parsed content, one node per step, and the Save that ends it.           *)

(* The bytes the segments of the nodes point into. *)
Source ==
    <<"a", "$", "x", "$", "b", "\\", "$", "c", " ", " ", " ", " ", "b", "\n">>

Text(start, stop) == [Node("Text") EXCEPT !.lines = <<Seg(start, stop)>>]

Parent(kind, children) == [Node(kind) EXCEPT !.children = children]

(* An image whose destination loads (a PNG served without a content type,  *)
(* a JPEG wider than the page) or does not.                                *)
Images ==
    [png |-> [Node("Image") EXCEPT !.dest = "a.png",
                 !.res = [ok |-> TRUE, data |-> <<"png-bytes">>, contentType |-> "",
                          detected |-> "image/png", width |-> 300, height |-> 200]],
     jpeg |-> [Node("Image") EXCEPT !.dest = "http://example.com/b.jpg",
                 !.res = [ok |-> TRUE, data |-> <<"jpeg-bytes">>, contentType |-> "image/jpeg",
                          detected |-> "image/jpeg", width |-> 800, height |-> 600]],
     missing |-> [Node("Image") EXCEPT !.dest = "missing.png"]]

Link(children) == [Parent("Link", children) EXCEPT !.dest = "https://example.com"]

(* The top-level nodes a document is made of. *)
TopNodes ==
    {Parent("Paragraph", <<Text(0, 5)>>),
     Parent("Paragraph", <<Link(<<Text(0, 1), Images.jpeg>>), Text(5, 8)>>),
     Parent("Paragraph", <<Images.missing>>),
     Parent("Paragraph",
            <<[Parent("Emphasis",
                      <<Parent("Strikethrough", <<Link(<<Text(7, 8)>>)>>)>>)
                  EXCEPT !.level = 1],
              Parent("Strikethrough",
                     <<[Parent("Emphasis", <<Text(0, 1)>>) EXCEPT !.level = 2]>>)>>),
     [Parent("Heading", <<[Parent("Emphasis", <<Text(4, 5)>>) EXCEPT !.level = 2],
                          Parent("Strikethrough", <<Text(0, 1)>>),
                          Parent("CodeSpan", <<Text(4, 5)>>)>>) EXCEPT !.level = 2],
     Parent("Table", <<Parent("TableRow",
                              <<Parent("TableCell", <<Link(<<Text(0, 1)>>)>>),
                                Parent("TableCell", <<Images.png>>)>>)>>),
     [Parent("List",
             <<Parent("ListItem",
                      <<Parent("TextBlock", <<Text(0, 1)>>),
                        Parent("List", <<Parent("ListItem",
                                                <<Parent("TextBlock",
                                                         <<Link(<<Parent("CodeSpan",
                                                                         <<Text(4, 5)>>),
                                                                  Text(0, 1)>>)>>)>>)>>)>>),
               Parent("ListItem", <<Parent("TextBlock", <<Text(1, 4)>>)>>)>>)
         EXCEPT !.ordered = TRUE],
     [Node("FencedCodeBlock") EXCEPT !.lang = "Mermaid", !.lines = <<Seg(12, 14)>>],
     [Node("FencedCodeBlock") EXCEPT !.lang = "math", !.lines = <<Seg(2, 3)>>],
     [Node("FencedCodeBlock") EXCEPT !.lang = "go", !.lines = <<Seg(12, 14), Seg(7, 8)>>],
     [Parent("CodeBlock", <<Parent("Paragraph", <<Text(0, 1)>>)>>) EXCEPT !.lines = <<Seg(8, 14)>>],
     [Parent("CodeBlock",
             <<[Parent("CodeBlock",
                       <<[Node("FencedCodeBlock") EXCEPT !.lang = "mermaid",
                                                         !.lines = <<Seg(0, 1)>>]>>)
                   EXCEPT !.lines = <<Seg(0, 2)>>]>>)
         EXCEPT !.lines = <<Seg(8, 14)>>],
     Parent("Blockquote", <<Parent("Paragraph", <<Text(4, 5), Images.png>>)>>),
     Node("ThematicBreak"),
     Parent("HTMLBlock", <<>>)}

(* What the renderers and the system answer during one step: whether      *)
(* MathJax renders, a browser is found, Mermaid renders, the lexer works.  *)
Envs == [mathOk : BOOLEAN, chromeFound : BOOLEAN, mermaidOk : BOOLEAN, lexOk : BOOLEAN]

(* The AddImage and AddHyperlink calls that took the Document from d0 to   *)
(* d1, as the call logs record them.                                       *)
CallsSince(d0, d1, type) ==
    LET first == Len(d0.contentRels) + 1
        ofType == SelectSeq([i \in 1..(Len(d1.contentRels) - Len(d0.contentRels)) |->
                               [rel |-> d1.contentRels[first + i - 1], seq |-> first + i - 1]],
                            LAMBDA c : c.rel.Type = type)
        image(rel) == d1.images[CHOOSE k \in DOMAIN d1.images : "media/" \o k = rel.Target]
    IN  [i \in 1..Len(ofType) |->
            IF type = ImageRelType
            THEN [data |-> image(ofType[i].rel).Data, rID |-> ofType[i].rel.ID,
                  seq |-> ofType[i].seq, contentType |-> image(ofType[i].rel).ContentType]
            ELSE [target |-> ofType[i].rel.Target, rID |-> ofType[i].rel.ID,
                  seq |-> ofType[i].seq]]

InitConvert ==
    /\ \E cfg \in Configs : DocInit(cfg)
    /\ RenderIdle
    /\ cv = [phase |-> "walking", source |-> Source, chrome |-> FALSE, processed |-> 0,
            saves |-> 0, node |-> Node("Document"), created |-> 0, cancelled |-> 0]

(* Close: a browser context that exists is cancelled and forgotten. *)
Close(c) ==
    IF c.chrome THEN [c EXCEPT !.chrome = FALSE, !.cancelled = @ + 1] ELSE c

(* One iteration of walkNode on the root.  An error ends Convert: it       *)
(* returns the error wrapped, and the deferred Close drops the browser.    *)
ConvertNode ==
    /\ cv.phase = "walking"
    /\ cv.processed < MaxNodes
    /\ \E n \in TopNodes, e \in Envs :
          \E st \in {ProcessNode([config |-> doc.config, env |-> e],
                                 [doc |-> doc, source |-> cv.source, chrome |-> cv.chrome,
                                  created |-> cv.created, err |-> NilErr,
                                  p |-> NoContainer, table |-> NewTable], n)} :
              /\ doc' = st.doc
              /\ appended' = appended \o SubSeq(st.doc.elements, Len(doc.elements) + 1,
                                                Len(st.doc.elements))
              /\ registered' = registered \o CallsSince(doc, st.doc, ImageRelType)
              /\ linked' = linked \o CallsSince(doc, st.doc, HyperlinkRelType)
              /\ err' = IF st.err = NilErr THEN NilErr ELSE Wrap("convert failed", st.err)
              /\ cv' = IF st.err = NilErr
                       THEN [cv EXCEPT !.processed = @ + 1, !.source = st.source,
                                       !.chrome = st.chrome, !.created = st.created,
                                       !.node = n]
                       ELSE Close([cv EXCEPT !.phase = "failed", !.source = st.source,
                                             !.chrome = st.chrome,
                                             !.created = st.created, !.node = n])
    /\ op' = "processNode"
    /\ ret' = ""
    /\ UNCHANGED <<disk, env, renderVars>>

(* A Convert that can call Save on the Document it has saved. *)
ConvertSaveAgain ==
    /\ cv.phase \in {"walking", "saved"}
    /\ SaveCall
    /\ cv' = Close([cv EXCEPT !.phase = "saved", !.saves = @ + 1])

(* The walk is over: Convert returns what Save returns, and the deferred   *)
(* Close drops the browser.                                                *)
ConvertSave ==
    /\ cv.phase = "walking"
    /\ SaveCall
    /\ cv' = Close([cv EXCEPT !.phase = "saved", !.saves = @ + 1])

NextConvert == ConvertNode \/ ConvertSave

SpecConvert == InitConvert /\ [][NextConvert]_vars

(* ============================== Claims ================================ *)

(* C1: in any sequence of AddImage and AddHyperlink calls the k-th         *)
(* AddImage call returns rId(10+k).                                        *)
C1_KthImageGetsRId10PlusK ==
    op = "AddImage" => ret = RID(10 + Len(registered))

(* C2: in any sequence of AddImage and AddHyperlink calls the m-th         *)
(* AddHyperlink call returns rId(1000+m), whatever the number of AddImage  *)
(* calls made before it.                                                   *)
C2_MthLinkGetsRId1000PlusM ==
    op = "AddHyperlink" => ret = RID(1000 + Len(linked))

(* The relationship IDs of the body-relationship part: the styles          *)
(* relationship and every registered relationship.                         *)
BodyRelIDs(d) == {StylesRelID} \cup {d.contentRels[i].ID : i \in 1..Len(d.contentRels)}

(* C3: after any sequence of AddImage and AddHyperlink calls, of any       *)
(* length, the relationship IDs of the body-relationship part are          *)
(* pairwise distinct: there are as many IDs as entries.                    *)
C3_RelIDsPairwiseDistinct ==
    Cardinality(BodyRelIDs(doc)) = 1 + Len(doc.contentRels)

(* How many elements of the sequence s are in the set S. *)
CountIn(s, S) == Cardinality({i \in 1..Len(s) : s[i] \in S})

TextOpeners == {TextOpen, TextOpenPreserve}

(* The positions of the text elements and of the line breaks of a markup.  *)
OpenerPositions(xml) == {i \in 1..Len(xml) : xml[i] \in TextOpeners}

BreakPositions(xml) == {i \in 1..Len(xml) : xml[i] = LineBreak}

(* C4: a text Run whose text holds n newline characters renders as n+1     *)
(* text segments (w:t) joined by n line breaks (w:br), one between every   *)
(* two consecutive segments; one newline gives two segments and one break. *)
C4_NewlinesBecomeLineBreaks ==
    (rout # <<>> /\ ~rin.IsImage /\ rin.Text # <<>>) =>
        LET n == CountIn(rin.Text, {"\n"})
        IN  /\ Cardinality(OpenerPositions(rout)) = n + 1
            /\ Cardinality(BreakPositions(rout)) = n
            /\ \A i, j \in OpenerPositions(rout) :
                  i < j => \E b \in BreakPositions(rout) : i < b /\ b < j

(* The names of the five fixed parts, in the order the package lists them. *)
FixedPartNames ==
    <<"[Content_Types].xml", "_rels/.rels", "word/_rels/document.xml.rels",
      "word/styles.xml", "word/document.xml">>

(* The archive entry is the media part that the relationship returned to   *)
(* the AddImage call points at, and it holds the bytes of that call.       *)
MediaEntryOf(entry, call) ==
    \E j \in 1..Len(doc.contentRels) :
        /\ doc.contentRels[j].ID = call.rID
        /\ doc.contentRels[j].Type = ImageRelType
        /\ entry.name = "word/" \o doc.contentRels[j].Target
        /\ entry.data = call.data
        /\ entry.complete

(* C5: a Save that returns nil has written the five fixed parts in their   *)
(* fixed order and after them exactly one word/media entry per AddImage    *)
(* call, each holding the bytes passed to that call, and nothing else.     *)
C5_SuccessfulSaveWritesPartsInOrder ==
    (op = "Save" /\ err = NilErr) =>
        LET e == disk.entries
            nFixed == Len(FixedPartNames)
        IN  /\ Len(e) = nFixed + Len(registered)
            /\ \A i \in 1..nFixed : e[i].name = FixedPartNames[i] /\ e[i].complete
            /\ \A k \in 1..Len(registered) :
                  Cardinality({i \in (nFixed + 1)..Len(e) : MediaEntryOf(e[i], registered[k])}) = 1
            /\ Cardinality({e[i].name : i \in 1..Len(e)}) = Len(e)

(* A Save that succeeded on a Document with two registered images. *)
C5_Witness ==
    /\ op = "Save" /\ err = NilErr
    /\ Len(registered) = 2
    /\ Len(disk.entries) = 7

(* The names of the parts a Save is to write, in order: the fixed parts,   *)
(* then the media parts in the order the images map was ranged over.       *)
PlannedNames ==
    FixedPartNames \o [i \in 1..Len(env.order) |-> "word/media/" \o env.order[i]]

(* C6: when a step of Save fails (making the directory, creating the file, *)
(* creating or writing a part) Save returns a non-nil error, every part    *)
(* before the failing one is in the archive, complete, no part after the   *)
(* failing one is in it, and the only other entry is the one whose write   *)
(* failed.                                                                 *)
C6_FailedSaveStopsAtFailingStep ==
    (op = "Save" /\ env.fault # NoFault) =>
        LET f == env.fault
            e == disk.entries
            before == IF f.at \in {"mkdir", "open"} THEN 0 ELSE f.part - 1
        IN  /\ err # NilErr
            /\ Len(e) = before + (IF f.at = "write" THEN 1 ELSE 0)
            /\ \A i \in 1..Len(e) :
                  /\ e[i].name = PlannedNames[i]
                  /\ e[i].complete = (i <= before)
            /\ f.at \in {"mkdir", "open"} => ~disk.fileCreated

(* A Save whose write of the style sheet failed after three parts. *)
C6_Witness ==
    /\ op = "Save"
    /\ env.fault = [at |-> "write", part |-> 4]
    /\ Len(disk.entries) = 4
    /\ err # NilErr

(* C7: Save returns nil only when every part was written and the archive   *)
(* was finalized.                                                          *)
C7_NilOnlyWhenArchiveFinalized ==
    (op = "Save" /\ err = NilErr) =>
        /\ Len(disk.entries) = Len(PlannedNames)
        /\ \A i \in 1..Len(disk.entries) : disk.entries[i].complete
        /\ disk.finalized

(* C8: every error Save returns carries the context of the failing step.   *)
C8_EverySaveErrorHasContext ==
    (op = "Save" /\ err # NilErr) => err.ctx # ""

(* C10: the body part Save wrote is the opening of the body, the markup of *)
(* every element passed to AddParagraph, once each and in the order of the *)
(* calls, and the page trailer.                                            *)
C10_BodyHoldsElementsInCallOrder ==
    (op = "Save" /\ Len(disk.entries) >= BodyPartIndex
       /\ disk.entries[BodyPartIndex].complete) =>
        /\ disk.entries[BodyPartIndex].name = "word/document.xml"
        /\ disk.entries[BodyPartIndex].data =
              BodyOpen
              \o Flatten([i \in 1..Len(appended) |-> ElementToXML(appended[i])])
              \o BodyTrailer

(* A Save that wrote the body of a Document with two different elements.   *)
C10_Witness ==
    /\ op = "Save" /\ err = NilErr
    /\ Len(appended) = 2
    /\ appended[1] # appended[2]
    /\ ElementToXML(appended[1]) # ElementToXML(appended[2])

(* The relationship IDs an element refers to: the IDs of its hyperlinks    *)
(* and of its image runs, in a paragraph or in the cells of a table.       *)
RefsOfElement(e) ==
    LET ofRuns(runs) == {runs[i].ImageRelID : i \in {j \in 1..Len(runs) : runs[j].IsImage}}
        ofChild(c) == IF c.kind = "link" THEN {c.ID} \cup ofRuns(c.Runs) ELSE ofRuns(<<c>>)
        ofParagraph(p) == UNION {ofChild(p.Children[i]) : i \in 1..Len(p.Children)}
        ofCell(c) == UNION {ofParagraph(c.Paragraphs[i]) : i \in 1..Len(c.Paragraphs)}
        ofRow(r) == UNION {ofCell(r.Cells[i]) : i \in 1..Len(r.Cells)}
    IN  IF e.kind = "tbl" THEN UNION {ofRow(e.Rows[i]) : i \in 1..Len(e.Rows)}
        ELSE ofParagraph(e)

RefsOfDocument(d) == UNION {RefsOfElement(d.elements[i]) : i \in 1..Len(d.elements)}

(* C9: when the converter has called Save on the Document it built, every  *)
(* relationship ID that an image run or a hyperlink of the Document's      *)
(* elements carries is the ID of a relationship in the registry.           *)
C9_NoDanglingReference ==
    (cv.phase = "saved") =>
        RefsOfDocument(doc) \subseteq {doc.contentRels[i].ID : i \in 1..Len(doc.contentRels)}

(* A saved conversion whose Document refers to a hyperlink from a table    *)
(* cell and to an image from a hyperlink of a paragraph.                   *)
C9_Witness ==
    /\ cv.phase = "saved"
    /\ \E i, j \in 1..Len(doc.elements) :
          /\ doc.elements[i].kind = "tbl"
          /\ RefsOfElement(doc.elements[i]) # {}
          /\ doc.elements[j].kind = "p"
          /\ \E k \in 1..Len(doc.elements[j].Children) :
                /\ doc.elements[j].Children[k].kind = "link"
                /\ \E r \in 1..Len(doc.elements[j].Children[k].Runs) :
                      doc.elements[j].Children[k].Runs[r].IsImage

(* The call numbered k among the AddImage and AddHyperlink calls. *)
CallOf(k) ==
    IF \E i \in 1..Len(registered) : registered[i].seq = k
    THEN [kind |-> "image", call |-> registered[CHOOSE i \in 1..Len(registered) :
                                                   registered[i].seq = k]]
    ELSE [kind |-> "link", call |-> linked[CHOOSE i \in 1..Len(linked) : linked[i].seq = k]]

(* The entry of the body-relationship part is the one of the call: its ID  *)
(* is the ID the call returned; for an AddImage call it has no target mode *)
(* and targets media/<filename> of a stored image holding the call's       *)
(* bytes; for an AddHyperlink call it targets the call's target in the     *)
(* external mode.                                                          *)
RelEntryOf(entry, c) ==
    IF c.kind = "image"
    THEN \E name \in DOMAIN doc.images :
            /\ doc.images[name].Data = c.call.data
            /\ entry = "<Relationship Id=\"" \o c.call.rID \o "\" Type=\"" \o ImageRelType
                       \o "\" Target=\"media/" \o name \o "\"/>"
    ELSE entry = "<Relationship Id=\"" \o c.call.rID \o "\" Type=\"" \o HyperlinkRelType
                 \o "\" Target=\"" \o c.call.target \o "\" TargetMode=\"External\"/>"

(* The body-relationship parts a Save has written completely. *)
WrittenRelsParts ==
    {disk.entries[i].data : i \in {j \in 1..Len(disk.entries) :
        /\ disk.entries[j].name = "word/_rels/document.xml.rels"
        /\ disk.entries[j].complete}}

(* C11: the body-relationship part a Save has written holds the styles     *)
(* relationship and after it exactly one entry per AddImage or             *)
(* AddHyperlink call, in call order, each with the ID the call returned;   *)
(* the hyperlink entries, and only they, carry the external target mode,   *)
(* and an image entry targets media/<filename> of a stored image.          *)
C11_RelsPartListsCallsInOrder ==
    op = "Save" =>
        \A part \in WrittenRelsParts :
            LET n == Len(registered) + Len(linked)
            IN  /\ Len(part) = n + 3
                /\ part[1] = "<Relationships>"
                /\ part[2] = "<Relationship Id=\"rId1\" Target=\"styles.xml\"/>"
                /\ \A k \in 1..n : RelEntryOf(part[2 + k], CallOf(k))
                /\ part[n + 3] = "</Relationships>"

(* A Save wrote the relationships of a hyperlink registered before an      *)
(* image.                                                                  *)
C11_Witness ==
    /\ op = "Save"
    /\ WrittenRelsParts # {}
    /\ Len(registered) = 1 /\ Len(linked) = 1
    /\ linked[1].seq < registered[1].seq


(* The hyperlinks of an element: those of a paragraph, or of the           *)
(* paragraphs in the cells of a table.                                     *)
LinksOfElement(e) ==
    LET ofParagraph(p) == {p.Children[i] : i \in {j \in 1..Len(p.Children) :
                                                      p.Children[j].kind = "link"}}
        ofCell(c) == UNION {ofParagraph(c.Paragraphs[i]) : i \in 1..Len(c.Paragraphs)}
        ofRow(r) == UNION {ofCell(r.Cells[i]) : i \in 1..Len(r.Cells)}
    IN  IF e.kind = "tbl" THEN UNION {ofRow(e.Rows[i]) : i \in 1..Len(e.Rows)}
        ELSE ofParagraph(e)

LinksOfDocument(d) == UNION {LinksOfElement(d.elements[i]) : i \in 1..Len(d.elements)}

(* The colour a run of the converter has before the link is styled: only   *)
(* the run of a code span has one, the configured code colour.             *)
ExplicitColour(r) ==
    IF r.IsCode /\ doc.config.Code.Color # <<>>
    THEN TrimPrefix(doc.config.Code.Color, <<"#">>) ELSE <<>>

(* C12: in every Document the converter builds, every hyperlink has been   *)
(* styled by exactly one pass, which ran when the link had all its runs;   *)
(* every run of it is underlined, a run that had a colour keeps it and a   *)
(* run that had none carries the link colour 0563C1.                       *)
C12_LinkRunsStyledOnceAfterChildren ==
    cv.phase # "idle" =>
        \A h \in LinksOfDocument(doc) :
            /\ h.styled = <<Len(h.Runs)>>
            /\ \A i \in 1..Len(h.Runs) :
                  /\ h.Runs[i].Underline
                  /\ h.Runs[i].Color = IF ExplicitColour(h.Runs[i]) # <<>>
                                       THEN ExplicitColour(h.Runs[i])
                                       ELSE <<"0", "5", "6", "3", "C", "1">>

(* The converter has built a hyperlink holding a code run that kept the    *)
(* configured colour and a text run that got the link colour.              *)
C12_Witness ==
    /\ cv.phase # "idle"
    /\ \E h \in LinksOfDocument(doc) :
          /\ Len(h.Runs) = 2
          /\ h.Runs[1].IsCode /\ h.Runs[1].Color = <<"C", "7">>
          /\ h.Runs[2].Color = <<"0", "5", "6", "3", "C", "1">> /\ h.Runs[2].Underline


(* The positions of a token in a markup, in ascending order. *)
PositionsOf(xml, token) ==
    LET S == {i \in 1..Len(xml) : xml[i] = token}
    IN  [k \in 1..Cardinality(S) |->
            CHOOSE i \in S : Cardinality({j \in S : j < i}) = k - 1]

(* How many paragraph elements, empty or not, each cell element of a       *)
(* markup holds, in the order of the cells.                                *)
CellParagraphCounts(xml) ==
    LET opens == PositionsOf(xml, "<w:tc>")
        closes == PositionsOf(xml, "</w:tc>")
    IN  [k \in 1..Len(opens) |->
            Cardinality({i \in opens[k]..closes[k] : xml[i] \in {"<w:p>", "<w:p/>"}})]

(* The cells of the tables among the elements, in order. *)
CellsOf(elements) ==
    Flatten([i \in 1..Len(elements) |->
                IF elements[i].kind = "tbl"
                THEN Flatten([r \in 1..Len(elements[i].Rows) |-> elements[i].Rows[r].Cells])
                ELSE <<>>])

(* The body parts a Save has written completely. *)
WrittenBodies ==
    {disk.entries[i].data : i \in {j \in 1..Len(disk.entries) :
        /\ disk.entries[j].name = "word/document.xml"
        /\ disk.entries[j].complete}}

(* C13: in a body part that Save has written, every cell of every table    *)
(* holds max(1, n) paragraph elements, n being the number of paragraphs    *)
(* attached to the cell: one empty paragraph element when n = 0, and never *)
(* none.                                                                   *)
C13_CellRendersAtLeastOneParagraph ==
    op = "Save" =>
        \A body \in WrittenBodies :
            LET counts == CellParagraphCounts(body)
                cells == CellsOf(appended)
            IN  /\ Len(counts) = Len(cells)
                /\ \A k \in 1..Len(cells) :
                      /\ counts[k] = IF Len(cells[k].Paragraphs) = 0 THEN 1
                                     ELSE Len(cells[k].Paragraphs)
                      /\ Len(cells[k].Paragraphs) = 0 =>
                            body[PositionsOf(body, "</w:tc>")[k] - 1] = "<w:p/>"

(* A Save has written a table with a cell without paragraphs and a cell    *)
(* with two.                                                               *)
C13_Witness ==
    /\ op = "Save"
    /\ \E body \in WrittenBodies : CellParagraphCounts(body) = <<1, 2>>
    /\ \E i \in 1..Len(appended) :
          /\ appended[i].kind = "tbl"
          /\ Len(appended[i].Rows[1].Cells[1].Paragraphs) = 0
          /\ Len(appended[i].Rows[1].Cells[2].Paragraphs) = 2


(* The text begins with a space, ends with a space or holds two spaces in  *)
(* a row.                                                                  *)
NeedsPreserve(text) ==
    \/ text[1] = " "
    \/ text[Len(text)] = " "
    \/ \E i \in 1..(Len(text) - 1) : text[i] = " " /\ text[i + 1] = " "

(* C14: a text Run whose text holds no newline renders as one text         *)
(* element, which carries the preserve-whitespace marker if and only if    *)
(* the text begins with a space, ends with a space or holds two            *)
(* consecutive spaces.                                                     *)
C14_PreserveMarkerIffSpaces ==
    (rout # <<>> /\ ~rin.IsImage /\ rin.Text # <<>> /\ CountIn(rin.Text, {"\n"}) = 0) =>
        /\ CountIn(rout, {"<w:t>", "<w:t xml:space=\"preserve\">"}) = 1
        /\ CountIn(rout, {"<w:t xml:space=\"preserve\">"}) = 1 <=> NeedsPreserve(rin.Text)

(* A run whose only spaces are two in a row inside the text has been       *)
(* rendered with the marker.                                               *)
C14_Witness ==
    /\ rout # <<>>
    /\ rin.Text = <<"a", " ", " ", "a">>
    /\ CountIn(rout, {"<w:t xml:space=\"preserve\">"}) = 1

(* The only element appended is a paragraph without style or attributes    *)
(* holding one unformatted run with the text hello.                        *)
OnlyHelloAppended ==
    appended = <<[NewParagraph("") EXCEPT
                     !.Children = <<[ZeroRun EXCEPT !.Text = <<"h", "e", "l", "l", "o">>]>>]>>

(* C15: a Document holding only a paragraph without style or attributes    *)
(* with one unformatted run of text hello, saved, has a body part whose    *)
(* content before the section trailer is one paragraph element holding one *)
(* run element holding one text element with the content hello: no         *)
(* paragraph properties, no run properties, no preserve marker.            *)
C15_HelloRendersMinimalBody ==
    (op = "Save" /\ OnlyHelloAppended) =>
        \A body \in WrittenBodies :
            /\ Len(body) >= 10
            /\ SubSeq(body, 1, 10) = <<"<w:document>", "<w:body>", "<w:p>", "<w:r>", "<w:t>",
                                       "hello", "</w:t>", "</w:r>", "</w:p>", "<w:sectPr>">>
            /\ CountIn(body, {"<w:p>", "<w:p/>"}) = 1
            /\ CountIn(body, {"<w:r>"}) = 1
            /\ CountIn(body, {"<w:pPr>", "<w:rPr>", "<w:t xml:space=\"preserve\">"}) = 0

(* A Save has written the body of the Document holding only the hello      *)
(* paragraph.                                                              *)
C15_Witness ==
    /\ op = "Save"
    /\ OnlyHelloAppended
    /\ WrittenBodies # {}


(* C16 as stated: every conversion that has ended has called Save on its   *)
(* Document exactly once.                                                  *)
C16_SavedExactlyOncePerConversion ==
    cv.phase \in {"saved", "failed"} => cv.saves = 1

(* C16: a conversion calls Save on its Document at most once: exactly once *)
(* when the walk succeeds, as the last thing it does, and not at all when  *)
(* the walk fails; once Save has been called, no step changes the          *)
(* Document's elements, images or relationships.                           *)
C16_SavedOnceAfterSuccessfulWalk ==
    /\ [](/\ cv.saves <= 1
          /\ cv.phase = "saved" => cv.saves = 1
          /\ cv.phase \in {"walking", "failed"} => cv.saves = 0)
    /\ [][cv.saves >= 1 => /\ doc'.elements = doc.elements
                           /\ doc'.images = doc.images
                           /\ doc'.contentRels = doc.contentRels]_vars

(* A conversion has saved a Document that holds elements, an image and a   *)
(* relationship.                                                           *)
C16_Witness ==
    /\ cv.phase = "saved" /\ cv.saves = 1
    /\ Len(doc.elements) > 0
    /\ DOMAIN doc.images # {}
    /\ Len(doc.contentRels) > 0


(* The filename AddImage is to generate for the call numbered n with a     *)
(* content type: jpg, gif and svg for their types, png for any other.      *)
ExpectedImageName(n, contentType) ==
    "image" \o ToString(n)
    \o (IF contentType = "image/jpeg" THEN ".jpg"
        ELSE IF contentType = "image/gif" THEN ".gif"
        ELSE IF contentType = "image/svg+xml" THEN ".svg"
        ELSE ".png")

(* C17: whatever its content type, every AddImage call has stored its      *)
(* image under image<n> with the extension jpg for image/jpeg, gif for     *)
(* image/gif, svg for image/svg+xml and png for any other content type,    *)
(* and registered a relationship with the returned ID that targets it.     *)
C17_ExtensionFollowsContentType ==
    \A k \in 1..Len(registered) :
        LET c == registered[k]
            name == ExpectedImageName(c.seq, c.contentType)
        IN  /\ name \in DOMAIN doc.images
            /\ doc.images[name].Data = c.data
            /\ doc.images[name].ContentType = c.contentType
            /\ \E i \in 1..Len(doc.contentRels) :
                  /\ doc.contentRels[i].ID = c.rID
                  /\ doc.contentRels[i].Type = ImageRelType
                  /\ doc.contentRels[i].Target = "media/" \o name

(* AddImage has been called with an empty content type after a call with   *)
(* image/svg+xml.                                                          *)
C17_Witness ==
    /\ op = "AddImage"
    /\ Len(registered) = 2
    /\ registered[1].contentType = "image/svg+xml"
    /\ registered[2].contentType = ""
    /\ DOMAIN doc.images = {"image1.svg", "image2.png"}


(* The style sheets a Save has written completely. *)
WrittenStyleSheets ==
    {disk.entries[i].data : i \in {j \in 1..Len(disk.entries) :
        /\ disk.entries[j].name = "word/styles.xml"
        /\ disk.entries[j].complete}}

(* The tokens of the definition of the style with an ID in a style sheet:  *)
(* from its opening to the first closing after it.                         *)
StyleDefinition(sheet, styleID) ==
    LET open == CHOOSE i \in 1..Len(sheet) :
                    sheet[i] = "<w:style w:type=\"paragraph\" w:styleId=\"" \o styleID \o "\">"
        close == CHOOSE j \in open..Len(sheet) :
                    /\ sheet[j] = "</w:style>"
                    /\ \A k \in open..(j - 1) : sheet[k] # "</w:style>"
    IN  {sheet[k] : k \in open..close}

(* The style a heading level is to have: the level's override when one is  *)
(* configured, the body style when none is.                                *)
EffectiveHeadingStyle(cfg, level) ==
    IF cfg.Heading[level] # ZeroStyle THEN cfg.Heading[level] ELSE cfg.Body

(* C18: the style sheet that GenerateStyles writes holds exactly one        *)
(* paragraph-style definition per heading level 1..9, with the outline     *)
(* level level-1 and with the font, size and bold flag of the level's      *)
(* override or, when the level has no override, of the body style.         *)
C18_HeadingStylesFallBackToBody ==
    \A sheet \in WrittenStyleSheets :
        \A level \in 1..9 :
            LET id == "Heading" \o ToString(level)
                style == EffectiveHeadingStyle(doc.config, level)
                def == StyleDefinition(sheet, id)
            IN  /\ CountIn(sheet, {"<w:style w:type=\"paragraph\" w:styleId=\"" \o id \o "\">"}) = 1
                /\ "<w:outlineLvl w:val=\"" \o ToString(level - 1) \o "\"/>" \in def
                /\ ("<w:rFonts w:ascii=\"" \o style.Font \o "\" w:eastAsia=\"" \o style.Font
                    \o "\" w:hAnsi=\"" \o style.Font \o "\"/>") \in def
                /\ "<w:sz w:val=\"" \o ToString((style.Size * 2) \div 10) \o "\"/>" \in def
                /\ "<w:b/>" \in def <=> style.Bold


(* Twice a size given in tenths of a point, in whole half-points,          *)
(* truncated toward zero.                                                  *)
TruncatedDouble(size) ==
    CHOOSE h \in -100..100 :
        IF size >= 0 THEN 10 * h <= 2 * size /\ 2 * size < 10 * (h + 1)
        ELSE 10 * (h - 1) < 2 * size /\ 2 * size <= 10 * h

(* C19: a font size in points converts to half-points by doubling and      *)
(* truncating toward zero, 10.5 to 21 and 9 to 18, and the rendering of a  *)
(* run, the style sheet and FontSizeToTwips all give that value.           *)
C19_HalfPointsTruncate ==
    rout # <<>> =>
        LET h == TruncatedDouble(rin.FontSize)
            sz == "<w:sz w:val=\"" \o ToString(h) \o "\"/>"
            szCs == "<w:szCs w:val=\"" \o ToString(h) \o "\"/>"
            sheet == GenerateStyles([BareConfig EXCEPT !.Body.Size = rin.FontSize])
        IN  /\ FontSizeToTwips(rin.FontSize) = h
            /\ rin.FontSize = 105 => FontSizeToTwips(rin.FontSize) = 21
            /\ rin.FontSize = 90 => FontSizeToTwips(rin.FontSize) = 18
            /\ rin.FontSize > 0 =>
                  /\ CountIn(rout, {sz}) = 1 /\ CountIn(rout, {szCs}) = 1
                  /\ \A i \in 1..Len(rout) :
                        (\E v \in 0..100 : rout[i] = "<w:sz w:val=\"" \o ToString(v) \o "\"/>")
                            => rout[i] = sz
                  /\ sheet[6] = sz /\ sheet[7] = szCs

(* A run of 10.3 points, whose double is not whole, has been rendered with *)
(* 20 half-points.                                                         *)
C19_Witness ==
    /\ rout # <<>>
    /\ rin.FontSize = 103
    /\ CountIn(rout, {"<w:sz w:val=\"20\"/>"}) = 1


(* The alignment elements of a markup, in order. *)
JcTokens(xml) ==
    SelectSeq(xml, LAMBDA t : t \in {"<w:jc w:val=\"" \o v \o "\"/>" :
                                        v \in {"start", "center", "end", "both", "left", "right"}})

(* The alignment elements a cell is to render: for each of its paragraphs  *)
(* the paragraph's own alignment, or the cell's when it has none.          *)
ExpectedJcTokens(cell) ==
    LET eff == [i \in 1..Len(cell.Paragraphs) |->
                   IF cell.Paragraphs[i].Align # "" THEN cell.Paragraphs[i].Align
                   ELSE cell.Align]
        aligned == SelectSeq(eff, LAMBDA a : a # "")
    IN  [i \in 1..Len(aligned) |->
            "<w:jc w:val=\"" \o (IF aligned[i] = "left" THEN "start"
                                 ELSE IF aligned[i] = "right" THEN "end" ELSE aligned[i])
            \o "\"/>"]

(* C20: in a body part that Save has written, every paragraph of a cell    *)
(* is rendered with its own alignment or, when it has none, with the       *)
(* cell's; and rendering leaves the Align field of every paragraph as it   *)
(* was when the table was appended.                                        *)
C20_RenderingLeavesAlignUnchanged ==
    op = "Save" =>
        /\ \A body \in WrittenBodies :
              LET opens == PositionsOf(body, "<w:tc>")
                  closes == PositionsOf(body, "</w:tc>")
                  cells == CellsOf(appended)
              IN  \A k \in 1..Len(cells) :
                      JcTokens(SubSeq(body, opens[k], closes[k])) = ExpectedJcTokens(cells[k])
        /\ LET before == CellsOf(appended)
               after == CellsOf(doc.elements)
           IN  \A k \in 1..Len(before) :
                   \A i \in 1..Len(before[k].Paragraphs) :
                       after[k].Paragraphs[i].Align = before[k].Paragraphs[i].Align

(* ------------------------------- C21 ---------------------------------- *)
(* A field of a Paragraph that differs from its zero value. *)
SomeAttributeSet(p) ==
    \/ p.StyleID # "" \/ p.Align # "" \/ p.Indent # 0 \/ p.FirstLineIndent # 0
    \/ p.SpacingB # 0 \/ p.SpacingA # 0 \/ p.Shading # <<>> \/ p.Border
    \/ p.HorizontalRule \/ p.LineHeight # 0

(* C21: the markup of a paragraph holds at most one paragraph-properties   *)
(* block; it holds one only if some attribute of the paragraph is set, and *)
(* the block then has at least one child element between its opening and   *)
(* its closing tag, for every combination of attribute values.             *)
C21_PropsBlockOnlyWhenSetAndNeverEmpty ==
    rout # <<>> =>
        LET opens == PositionsOf(rout, "<w:pPr>")
            closes == PositionsOf(rout, "</w:pPr>")
        IN  /\ Len(opens) <= 1
            /\ Len(closes) = Len(opens)
            /\ Len(opens) = 1 =>
                  /\ SomeAttributeSet(rin)
                  /\ closes[1] > opens[1] + 1

(* A paragraph whose only set attribute is the line height has been        *)
(* rendered with a properties block.                                       *)
C21_Witness ==
    /\ rout # <<>>
    /\ rin.LineHeight > 0
    /\ ~SomeAttributeSet([rin EXCEPT !.LineHeight = 0])
    /\ Len(PositionsOf(rout, "<w:pPr>")) = 1

(* ------------------------------- C22 ---------------------------------- *)
(* The indent element that carries the given left and first-line values. *)
IndToken(left, firstLine) ==
    "<w:ind w:left=\"" \o ToString(left) \o "\" w:firstLine=\""
    \o ToString(firstLine) \o "\"/>"

IndTokens == {IndToken(l, f) : l \in IndentValues, f \in IndentValues}

(* C22: the markup of a paragraph holds exactly one indent element, which  *)
(* carries both the left and the first-line value, whenever Indent or      *)
(* FirstLineIndent is non-zero, and no indent element when both are zero.  *)
C22_OneIndentElementWhenEitherNonZero ==
    rout # <<>> =>
        IF rin.Indent # 0 \/ rin.FirstLineIndent # 0
        THEN /\ CountIn(rout, IndTokens) = 1
             /\ CountIn(rout, {IndToken(rin.Indent, rin.FirstLineIndent)}) = 1
        ELSE CountIn(rout, IndTokens) = 0

(* ------------------------------- C24 ---------------------------------- *)
(* The font elements Run.ToXML can write for the runs rendered. *)
RFontsTokens ==
    {"<w:rFonts w:ascii=\"" \o r.FontName \o "\" w:eastAsia=\"" \o r.FontName
     \o "\" w:hAnsi=\"" \o r.FontName \o "\"/>" : r \in RunInputs}
    \cup {"<w:rFonts w:ascii=\"Consolas\" w:hAnsi=\"Consolas\"/>"}

(* C24: the run-properties block of a rendered run holds no property       *)
(* element twice, and in particular at most one font element, also when    *)
(* the run has a font name and the code flag together.                     *)
C24_EachRunPropertyAtMostOnce ==
    rout # <<>> =>
        LET opens == PositionsOf(rout, "<w:rPr>")
            closes == PositionsOf(rout, "</w:rPr>")
        IN  /\ Len(opens) <= 1
            /\ Len(opens) = 1 =>
                  LET props == SubSeq(rout, opens[1] + 1, closes[1] - 1)
                  IN  /\ CountIn(props, RFontsTokens) <= 1
                      /\ \A i, j \in 1..Len(props) : props[i] = props[j] => i = j

(* ------------------------------- C23 ---------------------------------- *)
(* The text leaves below a node that are not inside a code span, each with *)
(* the flags the markup around it resolves to: bold under emphasis of      *)
(* level 2, italic under emphasis of level 1, strike under strikethrough.  *)
RECURSIVE ResolvedTexts(_, _, _, _, _)
ResolvedTexts(n, source, bold, italic, strike) ==
    IF n.kind = "Text"
    THEN {[text |-> SegValue(n.lines[1], source), bold |-> bold, italic |-> italic,
           strike |-> strike]}
    ELSE IF n.kind \in {"Emphasis", "Strikethrough", "Link", "Paragraph", "Heading"}
    THEN UNION {ResolvedTexts(n.children[i], source,
                              bold \/ (n.kind = "Emphasis" /\ n.level = 2),
                              italic \/ (n.kind = "Emphasis" /\ n.level = 1),
                              strike \/ n.kind = "Strikethrough") :
                   i \in 1..Len(n.children)}
    ELSE {}

(* The runs of a paragraph, those of its hyperlinks included. *)
RunsOfParagraph(p) ==
    Flatten([i \in 1..Len(p.Children) |->
                IF p.Children[i].kind = "link" THEN p.Children[i].Runs
                ELSE <<p.Children[i]>>])

(* C23: when the walk has turned a paragraph or heading node into a        *)
(* paragraph, every plain text run made from a text leaf of the node has   *)
(* the bold, italic and strike flags that the emphasis and strikethrough   *)
(* markup around the leaf resolve to, whatever the nesting of emphasis,    *)
(* strikethrough and link.                                                 *)
C23_ResolvedFlagsReachRuns ==
    (op = "processNode" /\ err = NilErr /\ cv.node.kind \in {"Paragraph", "Heading"}
     /\ appended # <<>>) =>
        LET runs == RunsOfParagraph(appended[Len(appended)])
            leaves == ResolvedTexts(cv.node, cv.source, FALSE, FALSE, FALSE)
        IN  \A f \in leaves :
                ~Contains(f.text, <<"$">>) =>
                    \A k \in 1..Len(runs) :
                        (runs[k].Text = f.text /\ ~runs[k].IsCode /\ ~runs[k].IsImage) =>
                            \E g \in leaves :
                                /\ g.text = runs[k].Text
                                /\ g.bold = runs[k].Bold
                                /\ g.italic = runs[k].Italic
                                /\ g.strike = runs[k].Strike

(* ------------------------------- C25 ---------------------------------- *)
(* The extensions AddImage gives to media entries. *)
MediaExtensions == {"png", "jpg", "gif", "svg"}

DefaultFor(ext) == "<Default Extension=\"" \o ext \o "\"/>"

(* The manifests a Save has written: the data of [Content_Types].xml. *)
WrittenManifests ==
    {disk.entries[i].data : i \in {j \in 1..Len(disk.entries) :
        disk.entries[j].name = "[Content_Types].xml" /\ disk.entries[j].complete}}

(* C25: after a Save, every media entry of the archive has an extension    *)
(* that the archive's [Content_Types].xml declares as a Default, and the   *)
(* manifest declares each of png, jpg, gif and svg.                        *)
C25_MediaExtensionsAreDeclared ==
    op = "Save" =>
        /\ \A i \in 1..Len(disk.entries) :
              \A n \in 1..(Len(registered) + Len(linked)), e \in MediaExtensions :
                  disk.entries[i].name = "word/media/image" \o ToString(n) \o "." \o e =>
                      /\ WrittenManifests # {}
                      /\ \A m \in WrittenManifests : \E k \in 1..Len(m) : m[k] = DefaultFor(e)
        /\ \A m \in WrittenManifests :
              \A e \in MediaExtensions : \E k \in 1..Len(m) : m[k] = DefaultFor(e)

(* ------------------------------- C26 ---------------------------------- *)
(* The nesting levels of the items of a list in source order: every item   *)
(* before the items of the lists nested in it.                             *)
RECURSIVE ItemLevels(_, _)
ItemLevels(list, level) ==
    Flatten([i \in 1..Len(list.children) |->
        LET item == list.children[i]
        IN  IF item.kind # "ListItem" THEN <<>>
            ELSE <<level>>
                 \o Flatten([j \in 1..Len(item.children) |->
                                IF item.children[j].kind = "List"
                                THEN ItemLevels(item.children[j], level + 1)
                                ELSE <<>>])])

(* C26: when the walk has processed a list, the paragraphs it appended     *)
(* are those of the list's items in source order, an item's own paragraph  *)
(* before the paragraphs of the items of its nested list: the k-th of      *)
(* them has the indentation of the k-th item in source order.              *)
C26_ItemParagraphBeforeNestedItems ==
    (op = "processNode" /\ err = NilErr /\ cv.node.kind = "List") =>
        LET levels == ItemLevels(cv.node, 0)
            first == Len(appended) - Len(levels)
        IN  /\ first >= 0
            /\ \A k \in 1..Len(levels) :
                  appended[first + k].Indent = (levels[k] + 1) * 360

(* ------------------------------- C27 ---------------------------------- *)
(* C27: a Save that succeeds has written the media entries in the order    *)
(* in which the images were registered: the k-th media entry of the        *)
(* archive is the image of the k-th AddImage call.                         *)
C27_MediaEntriesInRegistrationOrder ==
    (op = "Save" /\ err = NilErr) =>
        LET media == SelectSeq(disk.entries, LAMBDA e : \A j \in 1..Len(FixedPartNames) :
                                                        e.name # FixedPartNames[j])
        IN  /\ Len(media) = Len(registered)
            /\ \A k \in 1..Len(media) :
                  media[k].name = "word/media/"
                      \o ExpectedImageName(registered[k].seq, registered[k].contentType)

(* ------------------------------- C28 ---------------------------------- *)
(* C28: for every text, IsBlockFormula and ExtractBlockFormula return      *)
(* without failing; when IsBlockFormula is true the extraction is the      *)
(* text between the opening and the closing pair of dollar signs, white    *)
(* space trimmed; otherwise it is the text unchanged.                      *)
C28_ExtractionNeverFails ==
    rout # <<>> =>
        /\ ~rout.extracted.panic
        /\ rout.isBlock =>
              \E i, j \in 1..Len(rin) :
                  /\ i + 1 < j
                  /\ SubSeq(rin, i, i + 1) = Dollars
                  /\ SubSeq(rin, j, j + 1) = Dollars
                  /\ \A k \in 1..Len(rin) : (k < i \/ k > j + 1) => rin[k] \in WhiteSpace
                  /\ rout.extracted.value = TrimSpace(SubSeq(rin, i + 2, j - 1))
        /\ ~rout.isBlock => rout.extracted.value = rin

(* ------------------------------- C29 ---------------------------------- *)
(* C29: a step of the walk that processes an indented code block leaves    *)
(* the converter's source as it was before the step, whether the step      *)
(* returns normally or with the error of a child, at any nesting depth.    *)
C29_CodeBlockRestoresSource ==
    [][(op' = "processNode" /\ cv'.node.kind = "CodeBlock") => cv'.source = cv.source]_vars

(* The walk has failed inside a code block nested in a code block, and the *)
(* source is the content Convert was called with.                          *)
C29_Witness ==
    /\ op = "processNode"
    /\ cv.phase = "failed"
    /\ cv.node.kind = "CodeBlock"
    /\ cv.node.children[1].kind = "CodeBlock"
    /\ cv.source = Source

(* ------------------------------- C30 ---------------------------------- *)
(* C30: a conversion creates at most one browser context, however many     *)
(* Mermaid blocks it processes, and once Convert has returned, after a     *)
(* Save that succeeded, a Save that failed or a walk that failed, every    *)
(* context created has been cancelled and the converter holds none.        *)
C30_OneBrowserContextClosedOnReturn ==
    /\ cv.created <= 1
    /\ cv.cancelled <= cv.created
    /\ cv.phase \in {"saved", "failed"} => (~cv.chrome /\ cv.cancelled = cv.created)
    /\ cv.phase = "walking" => (cv.chrome <=> cv.created = 1) /\ cv.cancelled = 0

(* Convert has returned the error of Save after a walk over two Mermaid    *)
(* blocks, with one context created and cancelled.                         *)
C30_Witness ==
    /\ cv.phase = "saved"
    /\ err # NilErr
    /\ cv.processed = 2
    /\ Len(registered) = 2
    /\ \A k \in 1..2 : registered[k].data = MermaidImage.data
    /\ cv.created = 1
    /\ cv.cancelled = 1
    /\ ~cv.chrome

====
